---- MODULE Spec2Model ----
(***************************************************************************)
(* A model of llm_git_commits/main.py: the diff-hunk parser                *)
(* (get_file_hunks), the hunk selector (interactive_stage_hunks and the    *)
(* staging loop of main), the patch reconstructor (stage_hunks), the       *)
(* documentation advisor (suggest_doc_updates, apply_doc_patches) and the  *)
(* control flow of main.                                                   *)
(*                                                                         *)
(* Text is modelled as a sequence of one-character strings, so that        *)
(* startswith, split, join, strip, replace and the substring test are      *)
(* computed on characters the way the Python code computes them.           *)
(***************************************************************************)
EXTENDS Integers, Sequences, FiniteSets, TLC

VARIABLES
    \* get_file_hunks
    filepath,        \* the path whose diff is parsed
    diff,            \* the text get_file_diff returned for it
    parsed_hunks,    \* the list get_file_hunks returned
    gfh_pc,          \* "idle", "call", "done"
    \* the working tree, as git diff HEAD -- <path> reports it
    worktree,        \* path -> diff text
    \* stage_hunks
    hunks,           \* the argument of stage_hunks
    files_hunks,     \* the dict of line 336, in insertion order
    fi,              \* position of the loop of line 344 in files_hunks
    patch_file,      \* name of the current temporary file, 0 for none
    tmpfiles,        \* names of the temporary patch files that exist
    written,         \* the patch documents written so far, in order
    git_calls,       \* the git apply --cached calls made, with results
    index,           \* the patch documents applied to the staging area
    stage_pc,        \* position in stage_hunks
    stage_ret,       \* "none", "True", "False", "raised"
    \* interactive staging: main, lines 860-872, and interactive_stage_hunks
    modified_files,      \* the list get_modified_files returned
    mf_i,                \* position of the loop of line 861
    ish_hunks,           \* hunks of interactive_stage_hunks (line 281)
    hunk_i,              \* position of the loop of line 290 (from 1)
    selected_hunks,      \* line 285
    all_selected_hunks,  \* line 860
    console,             \* hunks shown and decisions read, in order
    reprompts,           \* answers so far that asked for the same hunk again
    sel_pc,              \* position in the block
    sel_out,             \* how the block ended
    \* the tool object and suggest_doc_updates
    provider,            \* self.provider: "unset" or "resolved"
    llm_requests,        \* requests.post calls made so far
    docs_dir_exists,     \* whether docs_dir exists
    response,            \* the reply _call_llm returned
    sug_warned,          \* the warning of line 534 was printed
    sug_error,           \* the exception that left suggest_doc_updates
    sug_pc,              \* position in suggest_doc_updates
    sug_ret,             \* what suggest_doc_updates returned
    \* apply_doc_patches
    doc_file,            \* the target file: whether it exists, and its text
    doc_before,          \* the target file as it was at the call
    patches_text,        \* the argument patches_text
    patches,             \* the directives parsed from it (line 609)
    lines,               \* the file's lines as the function holds them
    modified,            \* line 631
    patch_i,             \* position of the loop of line 632 (from 1)
    doc_changed,         \* positions of the directives that changed lines
    doc_writes,          \* times the file was opened for writing
    doc_pc,              \* position in apply_doc_patches
    doc_ret,             \* "none", "True", "False"
    \* main
    args,                \* the parsed command line (line 797)
    git_env,             \* what git answers in the working directory
    changed_files,       \* the files git diff --name-only HEAD lists
    main_out,            \* what main printed
    main_raised,         \* the exception caught at line 949, "none" if none
    commits,             \* commits created
    exit_status,         \* the process's exit status, -1 while it runs
    main_pc,             \* position in main
    \* generate_commit_message and _call_llm
    provider_name,       \* self.provider_name, "unset" when never assigned
    staged_diff,         \* the argument of generate_commit_message
    http_log,            \* the requests posted to the endpoint
    http_reply,          \* what the endpoint answered to the last request
    call_error,          \* the exception that left the call, NoError if none
    call_ret,            \* what _call_llm returned
    gcm_ret,             \* what generate_commit_message returned
    call_pc,             \* position in the call
    \* main from line 854 on
    cached,              \* the diffs git add put into the index
    commit_message,      \* main's commit_message, NoReturn before line 931
    commit_calls,        \* the messages passed to commit_staged_changes
    events               \* the steps of the run that bear on the commit

parseVars == <<filepath, diff, parsed_hunks, gfh_pc>>
stageVars == <<hunks, files_hunks, fi, patch_file, tmpfiles, written,
               git_calls, index, stage_pc, stage_ret>>
selVars == <<modified_files, mf_i, ish_hunks, hunk_i, selected_hunks,
             all_selected_hunks, console, reprompts, sel_pc, sel_out>>
sugVars == <<provider, llm_requests, docs_dir_exists, response, sug_warned,
             sug_error, sug_pc, sug_ret>>
docVars == <<doc_file, doc_before, patches_text, patches, lines, modified, patch_i,
             doc_changed, doc_writes, doc_pc, doc_ret>>
mainVars == <<args, git_env, changed_files, main_out, main_raised, commits,
              exit_status, main_pc>>
llmVars == <<provider_name, staged_diff, http_log, http_reply, call_error,
             call_ret, gcm_ret, call_pc>>
pipeVars == <<cached, commit_message, commit_calls, events>>
vars == <<parseVars, worktree, stageVars, selVars, sugVars, docVars, mainVars,
          llmVars, pipeVars>>

\* What a step of one component leaves alone: the other components' state.
OutsideParse == <<worktree, stageVars, selVars, sugVars, docVars, mainVars, llmVars,
                 pipeVars>>
OutsideStage == <<worktree, parseVars, selVars, sugVars, docVars, mainVars, llmVars,
                 pipeVars>>
OutsideSelect == <<worktree, parseVars, sugVars, docVars, mainVars, llmVars,
                 pipeVars>>
OutsideSuggest == <<worktree, parseVars, stageVars, selVars, docVars, mainVars, llmVars,
                 pipeVars>>
OutsideDocs == <<worktree, parseVars, stageVars, selVars, sugVars, mainVars, llmVars,
                 pipeVars>>
OutsideLlm == <<worktree, parseVars, stageVars, selVars, sugVars, docVars,
               mainVars, pipeVars>>
\* main assigns modified_files (line 847) and nothing else of the block of
\* lines 860-872 before it ends.
OutsideMain == <<worktree, parseVars, stageVars, sugVars, docVars, mf_i,
                 ish_hunks, hunk_i, selected_hunks, all_selected_hunks,
                 console, reprompts, sel_pc, sel_out, llmVars, pipeVars>>

\* ------------------------------------------------------------------ text

NL == "\n"

\* Python's None where the code only tests truthiness: the empty text.
None == <<>>

\* s.startswith(p)
StartsWith(s, p) == Len(s) >= Len(p) /\ SubSeq(s, 1, Len(p)) = p

\* line.startswith(('+', '-', ' '))
StartsWithAny(s, ps) == \E p \in ps : StartsWith(s, p)

\* sep.join(parts), sep a text
RECURSIVE Join(_, _)
Join(parts, sep) ==
    IF parts = <<>> THEN <<>>
    ELSE IF Len(parts) = 1 THEN parts[1]
    ELSE parts[1] \o sep \o Join(Tail(parts), sep)

\* Index of the first NL of text, 0 when there is none.
RECURSIVE FirstNL(_, _)
FirstNL(text, i) ==
    IF i > Len(text) THEN 0
    ELSE IF text[i] = NL THEN i
    ELSE FirstNL(text, i + 1)

\* text.split('\n'): always at least one element.
RECURSIVE Split(_)
Split(text) ==
    LET k == FirstNL(text, 1) IN
    IF k = 0 THEN <<text>>
    ELSE <<SubSeq(text, 1, k - 1)>> \o Split(SubSeq(text, k + 1, Len(text)))

\* needle in hay (substring test); the empty needle occurs in every text.
Contains(hay, needle) ==
    \E i \in 0..(Len(hay) - Len(needle)) :
        SubSeq(hay, i + 1, i + Len(needle)) = needle

\* The blanks str.strip() removes.
Blank(c) == c \in {" ", "\t", NL}

\* s.lstrip(), s.rstrip(), s.strip()
RECURSIVE LStrip(_)
LStrip(t) == IF t # <<>> /\ Blank(t[1]) THEN LStrip(Tail(t)) ELSE t
RECURSIVE RStrip(_)
RStrip(t) ==
    IF t # <<>> /\ Blank(t[Len(t)]) THEN RStrip(SubSeq(t, 1, Len(t) - 1))
    ELSE t
Strip(t) == RStrip(LStrip(t))

\* f.readlines(): the lines of a text, each with its newline; the last
\* line has none when the text does not end with one.
RECURSIVE ReadLines(_)
ReadLines(text) ==
    LET k == FirstNL(text, 1) IN
    IF text = <<>> THEN <<>>
    ELSE IF k = 0 THEN <<text>>
    ELSE <<SubSeq(text, 1, k)>> \o ReadLines(SubSeq(text, k + 1, Len(text)))

\* f.writelines(parts): the parts one after the other.
RECURSIVE Concat(_)
Concat(parts) ==
    IF parts = <<>> THEN <<>> ELSE parts[1] \o Concat(Tail(parts))

\* text.replace(old, new) for a non-empty old: every occurrence, from the
\* left, without overlap.
RECURSIVE ReplaceFrom(_, _, _)
ReplaceFrom(text, old, new) ==
    IF Len(text) < Len(old) THEN text
    ELSE IF StartsWith(text, old)
    THEN new \o ReplaceFrom(SubSeq(text, Len(old) + 1, Len(text)), old, new)
    ELSE <<text[1]>> \o ReplaceFrom(Tail(text), old, new)

\* new before every character: what replace does for the empty old, less
\* the final new.
RECURSIVE Interleave(_, _)
Interleave(text, new) ==
    IF text = <<>> THEN <<>>
    ELSE new \o <<text[1]>> \o Interleave(Tail(text), new)

\* text.replace(old, new)
Replace(text, old, new) ==
    IF old = <<>> THEN Interleave(text, new) \o new
    ELSE ReplaceFrom(text, old, new)

\* ------------------------------------------------- get_file_hunks (247-277)

\* A hunk record as the dicts of lines 260-264 and 271-275.
Hunk(header, body, path) ==
    [header |-> header, content |-> Join(body, <<NL>>), filepath |-> path]

\* The loop state before the first line (lines 253-255).
ParseStart == [hunks |-> <<>>, current_hunk |-> <<>>, hunk_header |-> None]

\* if current_hunk and hunk_header: hunks.append({...})  (259-264, 270-275)
FlushHunk(st, path) ==
    IF st.current_hunk # <<>> /\ st.hunk_header # None
    THEN Append(st.hunks, Hunk(st.hunk_header, st.current_hunk, path))
    ELSE st.hunks

\* Mutant: a line of an open hunk is kept whatever it starts with.
ParseLine_KeepAll(st, line, path) ==
    IF StartsWith(line, <<"@", "@">>)
    THEN [hunks |-> FlushHunk(st, path), current_hunk |-> <<>>,
          hunk_header |-> line]
    ELSE IF st.hunk_header # None
    THEN [st EXCEPT !.current_hunk = Append(@, line)]
    ELSE st

\* One iteration of the loop of lines 257-268.
ParseLine(st, line, path) ==
    IF StartsWith(line, <<"@", "@">>)
    THEN [hunks |-> FlushHunk(st, path), current_hunk |-> <<>>,
          hunk_header |-> line]
    ELSE IF StartsWithAny(line, {<<"+">>, <<"-">>, <<" ">>})
            /\ st.hunk_header # None
    THEN [st EXCEPT !.current_hunk = Append(@, line)]
    ELSE st

RECURSIVE ParseLines(_, _, _)
ParseLines(st, ls, path) ==
    IF ls = <<>> THEN st
    ELSE ParseLines(ParseLine(st, ls[1], path), Tail(ls), path)

\* Mutant: the hunk still open at the end of input is not flushed.
get_file_hunks_NoFinalFlush(path, difftext) ==
    IF difftext = <<>> THEN <<>>
    ELSE ParseLines(ParseStart, Split(difftext), path).hunks

\* get_file_hunks, given the text get_file_diff returned for filepath.
get_file_hunks(path, difftext) ==
    IF difftext = <<>> THEN <<>>
    ELSE FlushHunk(ParseLines(ParseStart, Split(difftext), path), path)

\* ------------------------------------------------------------- inputs

\* Longest diff text, in lines, given to the parser.
MaxDiffLines == 4

\* Longest hunk sequence given to stage_hunks.
MaxHunksIn == 3

\* Most modified files in an interactive staging run.
MaxFiles == 2

\* Most answers of one run that ask for the same hunk again ('d' or an
\* unrecognised answer).
MaxReprompts == 1

\* Longest model reply, in characters, drawn from ReplyChars.
MaxReplyLen == 4

\* Most lines of a documentation file.
MaxDocLines == 3

\* Most directives in one patches_text.
MaxPatches == 2

\* Longest message the model returns, in characters.
MaxMsgLen == 3

\* File paths.
Paths == {<<"x">>, <<"y">>, <<"z">>}

\* Lines a diff text is made of: two hunk markers, an addition, a deletion,
\* a context line, a no-newline marker, a blank line, and a line that starts
\* with a single @.
MarkerA == <<"@", "@", "1">>
MarkerB == <<"@", "@", "2">>
DiffLines == {MarkerA, MarkerB, <<"+", "a">>, <<"-", "b">>, <<" ", "c">>,
              <<"\\">>, <<>>, <<"@", "x">>}

SeqsUpTo(S, n) == UNION {[1..k -> S] : k \in 0..n}

\* The texts of at most MaxDiffLines lines; the empty text is among them.
DiffTexts == {Join(ls, <<NL>>) : ls \in SeqsUpTo(DiffLines, MaxDiffLines)}

\* What git diff HEAD prints for a file with one, and with two, changed
\* regions: the file header lines, then each marker and its body.
DiffHeader(p) ==
    <<"-", "-", "-", " ", "a", "/">> \o p \o <<NL>>
    \o <<"+", "+", "+", " ", "b", "/">> \o p \o <<NL>>
OneHunkDiff(p) ==
    DiffHeader(p) \o Join(<<MarkerA, <<"+", "a">>, <<>> >>, <<NL>>)
TwoHunkDiff(p) ==
    DiffHeader(p)
    \o Join(<<MarkerA, <<" ", "c">>, <<"+", "a">>, MarkerB, <<"-", "b">>,
              <<"\\">>, <<>> >>, <<NL>>)
\* A change git reports without any hunk (a binary file).
NoHunkDiff(p) == <<"B", "i", "n", " ">> \o p \o <<NL>>
FileDiffs(p) == {OneHunkDiff(p), TwoHunkDiff(p), NoHunkDiff(p)}
Worktrees == {w \in [Paths -> UNION {FileDiffs(p) : p \in Paths}] :
                \A p \in Paths : w[p] \in FileDiffs(p)}

IdleWorktree == [p \in Paths |-> <<>>]

\* ---------------------------------------------- get_file_hunks, as a call

ParseIdle ==
    /\ filepath = <<>> /\ diff = <<>> /\ parsed_hunks = <<>> /\ gfh_pc = "idle"

InitParse ==
    /\ filepath \in Paths
    /\ diff \in DiffTexts
    /\ parsed_hunks = <<>>
    /\ gfh_pc = "call"

\* hunks = tool.get_file_hunks(filepath)
GetFileHunks ==
    /\ gfh_pc = "call"
    /\ parsed_hunks' = get_file_hunks(filepath, diff)
    /\ gfh_pc' = "done"
    /\ UNCHANGED <<filepath, diff>>
    /\ UNCHANGED OutsideParse

\* ------------------------------------------------- stage_hunks (330-372)

\* Position of path in the dict files_hunks, 0 when it is not a key.
KeyIndex(fh, path) ==
    IF \E k \in 1..Len(fh) : fh[k].filepath = path
    THEN CHOOSE k \in 1..Len(fh) : fh[k].filepath = path
    ELSE 0

\* Mutant: a later hunk of a file replaces the file's list.
GroupHunk_Overwrite(fh, hunk) ==
    LET k == KeyIndex(fh, hunk.filepath) IN
    IF k = 0
    THEN Append(fh, [filepath |-> hunk.filepath, hunks |-> <<hunk>>])
    ELSE [fh EXCEPT ![k].hunks = <<hunk>>]

\* One iteration of the loop of lines 337-341.
GroupHunk(fh, hunk) ==
    LET k == KeyIndex(fh, hunk.filepath) IN
    IF k = 0
    THEN Append(fh, [filepath |-> hunk.filepath, hunks |-> <<hunk>>])
    ELSE [fh EXCEPT ![k].hunks = Append(@, hunk)]

\* Lines 336-341: the dict, its keys in insertion order.
RECURSIVE GroupByFile(_, _)
GroupByFile(fh, hs) ==
    IF hs = <<>> THEN fh
    ELSE GroupByFile(GroupHunk(fh, hs[1]), Tail(hs))

\* Lines 346-349: the synthetic file-pair header.
PatchHeader(path) ==
    <<"d", "i", "f", "f", " ", "-", "-", "g", "i", "t", " ", "a", "/">>
      \o path \o <<" ", "b", "/">> \o path \o <<NL>>
    \o <<"i", "n", "d", "e", "x", " ", "0", "0", "0", "0", "0", "0", "0",
         ".", ".", "1", "1", "1", "1", "1", "1", "1", " ", "1", "0", "0",
         "6", "4", "4", NL>>
    \o <<"-", "-", "-", " ", "a", "/">> \o path \o <<NL>>
    \o <<"+", "+", "+", " ", "b", "/">> \o path \o <<NL>>

\* Mutant: no newline after a hunk's content.
RECURSIVE PatchHunks_Unterminated(_)
PatchHunks_Unterminated(hs) ==
    IF hs = <<>> THEN <<>>
    ELSE hs[1].header \o <<NL>> \o hs[1].content
         \o PatchHunks_Unterminated(Tail(hs))

\* Lines 351-353: each hunk's header and content, a newline after each.
RECURSIVE PatchHunks(_)
PatchHunks(hs) ==
    IF hs = <<>> THEN <<>>
    ELSE hs[1].header \o <<NL>> \o hs[1].content \o <<NL>>
         \o PatchHunks(Tail(hs))

\* patch_content of lines 346-353
PatchContent(path, file_hunks) == PatchHeader(path) \o PatchHunks(file_hunks)

StageIdle ==
    /\ hunks = <<>> /\ files_hunks = <<>> /\ fi = 0 /\ patch_file = 0
    /\ tmpfiles = {} /\ written = <<>> /\ git_calls = <<>> /\ index = <<>>
    /\ stage_pc = "idle" /\ stage_ret = "none"

\* Lines 332-333: if not hunks: return False
StageEmpty ==
    /\ stage_pc = "call"
    /\ hunks = <<>>
    /\ stage_ret' = "False"
    /\ stage_pc' = "done"
    /\ UNCHANGED <<hunks, files_hunks, fi, patch_file, tmpfiles, written,
                   git_calls, index>>
    /\ UNCHANGED OutsideStage

\* Lines 335-341: group the hunks by file.
StageGroup ==
    /\ stage_pc = "call"
    /\ hunks # <<>>
    /\ files_hunks' = GroupByFile(<<>>, hunks)
    /\ fi' = 1
    /\ stage_pc' = "build"
    /\ UNCHANGED <<hunks, patch_file, tmpfiles, written, git_calls, index,
                   stage_ret>>
    /\ UNCHANGED OutsideStage

\* Lines 344-358: the next file's patch_content, written to a new
\* temporary file (delete=False) whose name is kept in patch_file.
StageWritePatch ==
    /\ stage_pc = "build"
    /\ fi <= Len(files_hunks)
    /\ LET name == Len(written) + 1
           doc == [filepath |-> files_hunks[fi].filepath,
                   content |-> PatchContent(files_hunks[fi].filepath,
                                            files_hunks[fi].hunks)]
       IN /\ written' = Append(written, doc)
          /\ tmpfiles' = tmpfiles \cup {name}
          /\ patch_file' = name
    /\ stage_pc' = "apply"
    /\ UNCHANGED <<hunks, files_hunks, fi, git_calls, index, stage_ret>>
    /\ UNCHANGED OutsideStage

\* Lines 361-365: git apply --cached patch_file succeeds.
StageApplyOk ==
    /\ stage_pc = "apply"
    /\ git_calls' = Append(git_calls, [patch |-> patch_file, result |-> "ok"])
    /\ index' = Append(index, written[patch_file])
    /\ stage_pc' = "finally"
    /\ UNCHANGED <<hunks, files_hunks, fi, patch_file, tmpfiles, written,
                   stage_ret>>
    /\ UNCHANGED OutsideStage

\* Lines 366-368: git apply exits non-zero (CalledProcessError); the
\* except clause prints and returns False, after the finally clause.
StageApplyFail ==
    /\ stage_pc = "apply"
    /\ git_calls' = Append(git_calls, [patch |-> patch_file, result |-> "fail"])
    /\ stage_pc' = "finally"
    /\ UNCHANGED <<hunks, files_hunks, fi, patch_file, tmpfiles, written,
                   index, stage_ret>>
    /\ UNCHANGED OutsideStage

\* Line 361: subprocess.run raises something else (git cannot be run); no
\* except clause matches, the exception leaves stage_hunks after finally.
StageApplyError ==
    /\ stage_pc = "apply"
    /\ git_calls' = Append(git_calls, [patch |-> patch_file, result |-> "error"])
    /\ stage_pc' = "finally"
    /\ UNCHANGED <<hunks, files_hunks, fi, patch_file, tmpfiles, written,
                   index, stage_ret>>
    /\ UNCHANGED OutsideStage

\* Mutant: a failed apply is reported and the loop goes on.
AfterApply_Continue(result) ==
    IF result \in {"ok", "fail"} THEN
        /\ fi' = fi + 1
        /\ stage_pc' = "build"
        /\ stage_ret' = stage_ret
    ELSE
        /\ fi' = fi
        /\ stage_pc' = "done"
        /\ stage_ret' = "raised"

\* What follows the finally clause, by the result of the apply: the next
\* file (line 344), return False (line 368), or the exception.
AfterApply(result) ==
    IF result = "ok" THEN
        /\ fi' = fi + 1
        /\ stage_pc' = "build"
        /\ stage_ret' = stage_ret
    ELSE
        /\ fi' = fi
        /\ stage_pc' = "done"
        /\ stage_ret' = IF result = "fail" THEN "False" ELSE "raised"

\* Mutant: the unlink follows the try statement instead of being its
\* finally clause, so it is skipped when the apply did not succeed.
StageFinally_UnlinkOnSuccess ==
    /\ stage_pc = "finally"
    /\ tmpfiles' = IF git_calls[Len(git_calls)].result = "ok"
                   THEN tmpfiles \ {patch_file} ELSE tmpfiles
    /\ AfterApply(git_calls[Len(git_calls)].result)
    /\ UNCHANGED <<hunks, files_hunks, patch_file, written, git_calls, index>>
    /\ UNCHANGED OutsideStage

\* Lines 369-370: finally: os.unlink(patch_file)
StageFinally ==
    /\ stage_pc = "finally"
    /\ tmpfiles' = tmpfiles \ {patch_file}
    /\ AfterApply(git_calls[Len(git_calls)].result)
    /\ UNCHANGED <<hunks, files_hunks, patch_file, written, git_calls, index>>
    /\ UNCHANGED OutsideStage

\* Line 372: return True, the loop of line 344 being over.
StageReturnTrue ==
    /\ stage_pc = "build"
    /\ fi > Len(files_hunks)
    /\ stage_ret' = "True"
    /\ stage_pc' = "done"
    /\ UNCHANGED <<hunks, files_hunks, fi, patch_file, tmpfiles, written,
                   git_calls, index>>
    /\ UNCHANGED OutsideStage

\* The hunks get_file_hunks yields for the files of a working tree.
TreeHunks(w) == UNION {{get_file_hunks(p, w[p])[i] :
                          i \in 1..Len(get_file_hunks(p, w[p]))} : p \in Paths}

Injective(s) == \A i, j \in 1..Len(s) : s[i] = s[j] => i = j

\* stage_hunks called with any sequence of distinct hunks of the working
\* tree, in any order.
InitStage ==
    /\ worktree \in Worktrees
    /\ hunks \in {h \in SeqsUpTo(TreeHunks(worktree), MaxHunksIn) : Injective(h)}
    /\ files_hunks = <<>> /\ fi = 0 /\ patch_file = 0
    /\ tmpfiles = {} /\ written = <<>> /\ git_calls = <<>> /\ index = <<>>
    /\ stage_pc = "call" /\ stage_ret = "none"

\* -------- interactive staging: main 860-872, interactive_stage_hunks 279-328

SelectIdle ==
    /\ modified_files = <<>> /\ mf_i = 0 /\ ish_hunks = <<>> /\ hunk_i = 0
    /\ selected_hunks = <<>> /\ all_selected_hunks = <<>> /\ console = <<>>
    /\ reprompts = 0 /\ sel_pc = "idle" /\ sel_out = "none"

\* Lines 291-305: the hunk is printed.
Show(path, i) == [ev |-> "show", filepath |-> path, i |-> i]

\* Line 308: an answer is read.
Input(choice) == [ev |-> "input", choice |-> choice]

\* Lines 281-283: the file has no hunk, interactive_stage_hunks returns [],
\* and line 863 extends all_selected_hunks by nothing.
SelFileNoHunks ==
    /\ sel_pc = "files"
    /\ mf_i <= Len(modified_files)
    /\ get_file_hunks(modified_files[mf_i], worktree[modified_files[mf_i]]) = <<>>
    /\ mf_i' = mf_i + 1
    /\ UNCHANGED <<modified_files, ish_hunks, hunk_i, selected_hunks,
                   all_selected_hunks, console, reprompts, sel_pc, sel_out>>
    /\ UNCHANGED <<worktree, parseVars, stageVars, sugVars, docVars, mainVars,
                   llmVars, pipeVars>>
    /\ UNCHANGED reprompts

\* Lines 862, 281-305: interactive_stage_hunks is called for the next file,
\* which has hunks; the first is shown.
SelFileOpen ==
    /\ sel_pc = "files"
    /\ mf_i <= Len(modified_files)
    /\ LET path == modified_files[mf_i]
           hs == get_file_hunks(path, worktree[path])
       IN /\ hs # <<>>
          /\ ish_hunks' = hs
          /\ hunk_i' = 1
          /\ selected_hunks' = <<>>
          /\ console' = Append(console, Show(path, 1))
    /\ sel_pc' = "prompt"
    /\ UNCHANGED <<modified_files, mf_i, all_selected_hunks, sel_out>>
    /\ UNCHANGED <<worktree, parseVars, stageVars, sugVars, docVars, mainVars,
                   llmVars, pipeVars>>
    /\ UNCHANGED reprompts

\* interactive_stage_hunks returns sel (lines 315, 328) and line 863
\* extends all_selected_hunks with it; the loop of line 861 goes on.
ReturnSelected(sel) ==
    /\ all_selected_hunks' = all_selected_hunks \o sel
    /\ mf_i' = mf_i + 1
    /\ sel_pc' = "files"
    /\ hunk_i' = hunk_i
    /\ selected_hunks' = sel

\* The break of lines 311 and 313: the loop of line 290 moves to the next
\* hunk and shows it, or is over and line 328 returns. sel is
\* selected_hunks after the answer, log the console after it.
NextHunk(sel, log) ==
    IF hunk_i < Len(ish_hunks)
    THEN /\ hunk_i' = hunk_i + 1
         /\ selected_hunks' = sel
         /\ console' = Append(log, Show(modified_files[mf_i], hunk_i + 1))
         /\ UNCHANGED <<all_selected_hunks, mf_i, sel_pc>>
    ELSE /\ ReturnSelected(sel)
         /\ console' = log

\* Lines 309-311: 'y'
AnswerKeep ==
    /\ sel_pc = "prompt"
    /\ NextHunk(Append(selected_hunks, ish_hunks[hunk_i]),
                Append(console, Input("y")))
    /\ UNCHANGED <<modified_files, ish_hunks, sel_out>>
    /\ UNCHANGED <<worktree, parseVars, stageVars, sugVars, docVars, mainVars,
                   llmVars, pipeVars>>
    /\ UNCHANGED reprompts

\* Lines 312-313: 'n'
AnswerSkip ==
    /\ sel_pc = "prompt"
    /\ NextHunk(selected_hunks, Append(console, Input("n")))
    /\ UNCHANGED <<modified_files, ish_hunks, sel_out>>
    /\ UNCHANGED <<worktree, parseVars, stageVars, sugVars, docVars, mainVars,
                   llmVars, pipeVars>>
    /\ UNCHANGED reprompts

\* Lines 314-315: 'q': return selected_hunks
AnswerQuit ==
    /\ sel_pc = "prompt"
    /\ ReturnSelected(selected_hunks)
    /\ console' = Append(console, Input("q"))
    /\ UNCHANGED <<modified_files, ish_hunks, sel_out>>
    /\ UNCHANGED <<worktree, parseVars, stageVars, sugVars, docVars, mainVars,
                   llmVars, pipeVars>>
    /\ UNCHANGED reprompts

\* Lines 316-324: 'd': the full hunk is printed and the while loop of line
\* 307 asks again; nothing but the count of such answers changes.
AnswerDetail ==
    /\ sel_pc = "prompt"
    /\ reprompts < MaxReprompts
    /\ reprompts' = reprompts + 1
    /\ UNCHANGED <<modified_files, mf_i, ish_hunks, hunk_i, selected_hunks,
                   all_selected_hunks, console, sel_pc, sel_out>>
    /\ UNCHANGED <<worktree, parseVars, stageVars, sugVars, docVars, mainVars,
                   llmVars, pipeVars>>

\* Mutant: an unrecognised answer counts as a skip.
AnswerOther_AsSkip ==
    /\ sel_pc = "prompt"
    /\ reprompts < MaxReprompts
    /\ reprompts' = reprompts + 1
    /\ NextHunk(selected_hunks, console)
    /\ UNCHANGED <<modified_files, ish_hunks, sel_out>>
    /\ UNCHANGED <<worktree, parseVars, stageVars, sugVars, docVars, mainVars,
                   llmVars, pipeVars>>

\* Lines 325-326: any other answer: the help line, and the loop asks again.
AnswerOther ==
    /\ sel_pc = "prompt"
    /\ reprompts < MaxReprompts
    /\ reprompts' = reprompts + 1
    /\ UNCHANGED <<modified_files, mf_i, ish_hunks, hunk_i, selected_hunks,
                   all_selected_hunks, console, sel_pc, sel_out>>
    /\ UNCHANGED <<worktree, parseVars, stageVars, sugVars, docVars, mainVars,
                   llmVars, pipeVars>>

\* Lines 865-867: something was selected: stage_hunks(all_selected_hunks)
SelStage ==
    /\ sel_pc = "files"
    /\ mf_i > Len(modified_files)
    /\ all_selected_hunks # <<>>
    /\ stage_pc = "idle"
    /\ hunks' = all_selected_hunks
    /\ stage_pc' = "call"
    /\ sel_pc' = "staging"
    /\ UNCHANGED <<modified_files, mf_i, ish_hunks, hunk_i, selected_hunks,
                   all_selected_hunks, console, sel_out>>
    /\ UNCHANGED <<files_hunks, fi, patch_file, tmpfiles, written, git_calls,
                   index, stage_ret>>
    /\ UNCHANGED OutsideSelect
    /\ UNCHANGED reprompts

\* Lines 870-872: nothing was selected: main prints and returns.
SelNothing ==
    /\ sel_pc = "files"
    /\ mf_i > Len(modified_files)
    /\ all_selected_hunks = <<>>
    /\ sel_pc' = "done"
    /\ sel_out' = "nothing selected"
    /\ UNCHANGED <<modified_files, mf_i, ish_hunks, hunk_i, selected_hunks,
                   all_selected_hunks, console>>
    /\ UNCHANGED <<worktree, parseVars, stageVars, sugVars, docVars, mainVars,
                   llmVars, pipeVars>>
    /\ UNCHANGED reprompts

\* Lines 867-869: stage_hunks is back: False makes main print and return,
\* True lets main go on to line 925, an exception leaves the block.
SelStaged ==
    /\ sel_pc = "staging"
    /\ stage_pc = "done"
    /\ sel_pc' = "done"
    /\ sel_out' = CASE stage_ret = "True" -> "staged"
                    [] stage_ret = "False" -> "staging failed"
                    [] OTHER -> "raised"
    /\ UNCHANGED <<modified_files, mf_i, ish_hunks, hunk_i, selected_hunks,
                   all_selected_hunks, console>>
    /\ UNCHANGED <<worktree, parseVars, stageVars, sugVars, docVars, mainVars,
                   llmVars, pipeVars>>
    /\ UNCHANGED reprompts

\* Sequences of distinct paths, as git diff --name-only lists them.
FileLists == {fl \in SeqsUpTo(Paths, MaxFiles) : fl # <<>> /\ Injective(fl)}

\* The block is entered with a non-empty list of modified files (line 848
\* returned otherwise); every listed file has a diff, no other file has.
InitSelect ==
    /\ modified_files \in FileLists
    /\ worktree \in {w \in [Paths -> UNION {FileDiffs(p) : p \in Paths} \cup {<<>>}] :
          \A p \in Paths :
              IF p \in {modified_files[k] : k \in 1..Len(modified_files)}
              THEN w[p] \in FileDiffs(p) ELSE w[p] = <<>>}
    /\ mf_i = 1 /\ ish_hunks = <<>> /\ hunk_i = 0
    /\ selected_hunks = <<>> /\ all_selected_hunks = <<>> /\ console = <<>>
    /\ reprompts = 0 /\ sel_pc = "files" /\ sel_out = "none"

\* ------------------------------------------------- json.loads (line 532)

\* First position from i on that holds no blank, Len(t) + 1 when none.
RECURSIVE SkipWs(_, _)
SkipWs(t, i) ==
    IF i <= Len(t) /\ t[i] = " " THEN SkipWs(t, i + 1) ELSE i

\* A string starts at i: the position after its closing quote, 0 when it
\* is not closed.
RECURSIVE StringEnd(_, _)
StringEnd(t, j) ==
    IF j > Len(t) THEN 0
    ELSE IF t[j] = "\"" THEN j + 1
    ELSE StringEnd(t, j + 1)

\* A number starts at i: the position after its digits.
RECURSIVE NumberEnd(_, _)
NumberEnd(t, j) ==
    IF j <= Len(t) /\ t[j] = "1" THEN NumberEnd(t, j + 1) ELSE j

RECURSIVE ValueEnd(_, _)
RECURSIVE ElementsEnd(_, _)
RECURSIVE MembersEnd(_, _)

\* The elements of an array from i on, up to and including its "]".
ElementsEnd(t, i) ==
    LET v == ValueEnd(t, i)
        k == SkipWs(t, v)
    IN IF v = 0 \/ k > Len(t) THEN 0
       ELSE IF t[k] = "," THEN ElementsEnd(t, SkipWs(t, k + 1))
       ELSE IF t[k] = "]" THEN k + 1
       ELSE 0

\* The members of an object from i on, up to and including its "}".
MembersEnd(t, i) ==
    IF i > Len(t) \/ t[i] # "\"" THEN 0
    ELSE LET s == StringEnd(t, i + 1)
             c == SkipWs(t, s)
         IN IF s = 0 \/ c > Len(t) \/ t[c] # ":" THEN 0
            ELSE LET v == ValueEnd(t, SkipWs(t, c + 1))
                     k == SkipWs(t, v)
                 IN IF v = 0 \/ k > Len(t) THEN 0
                    ELSE IF t[k] = "," THEN MembersEnd(t, SkipWs(t, k + 1))
                    ELSE IF t[k] = "}" THEN k + 1
                    ELSE 0

\* A JSON value starts at i: the position after it, 0 when there is none.
ValueEnd(t, i) ==
    IF i > Len(t) THEN 0
    ELSE IF t[i] = "\"" THEN StringEnd(t, i + 1)
    ELSE IF t[i] = "1" THEN NumberEnd(t, i)
    ELSE IF t[i] = "[" THEN
        LET j == SkipWs(t, i + 1) IN
        IF j <= Len(t) /\ t[j] = "]" THEN j + 1 ELSE ElementsEnd(t, j)
    ELSE IF t[i] = "{" THEN
        LET j == SkipWs(t, i + 1) IN
        IF j <= Len(t) /\ t[j] = "}" THEN j + 1 ELSE MembersEnd(t, j)
    ELSE 0

\* json.loads(text) raises no JSONDecodeError: the text is one JSON value
\* with blanks around it and nothing else.
JsonValid(t) ==
    LET v == ValueEnd(t, SkipWs(t, 1)) IN
    v # 0 /\ SkipWs(t, v) = Len(t) + 1

\* ------------------------------------------ _call_llm, suggest_doc_updates

\* The characters of the short replies.
ReplyChars == {"{", "}", "[", "]", "\"", "u", ":", ",", "1", " "}

\* Longer replies: a suggestion object, the same cut short, the same with a
\* trailing comma, and prose.
ReplyObject == <<"{", "\"", "u", "\"", ":", " ", "[", "1", ",", "1", "]", "}">>
ReplyCut == <<"{", "\"", "u", "\"", ":", " ", "[", "1", ",">>
ReplyComma == <<"{", "\"", "u", "\"", ":", "[", "]", ",", "}">>
ReplyProse == <<"S", "u", "r", "e", "!", " ", "{", "}">>

ReplyTexts ==
    SeqsUpTo(ReplyChars, MaxReplyLen)
    \cup {ReplyObject, ReplyCut, ReplyComma, ReplyProse}

\* Line 535: {"updates": [], "suggestions": []}
EmptySuggestions ==
    [kind |-> "dict", updates |-> <<>>, suggestions |-> <<>>, text |-> <<>>]

\* Line 532: the value json.loads built from a valid text.
JsonLoads(text) ==
    [kind |-> "json", updates |-> <<>>, suggestions |-> <<>>, text |-> text]

NoValue == [kind |-> "none", updates |-> <<>>, suggestions |-> <<>>, text |-> <<>>]

\* self.provider as _call_llm finds it. The constructor of lines 155-159
\* does not set it; the specification has it resolved before any model
\* call.
ProviderStates == {"unset", "resolved"}

SuggestIdle ==
    /\ provider = "unset" /\ llm_requests = 0 /\ docs_dir_exists = FALSE
    /\ response = <<>> /\ sug_warned = FALSE /\ sug_pc = "idle"
    /\ sug_error = "none" /\ sug_ret = NoValue

InitSuggest ==
    /\ provider \in ProviderStates
    /\ llm_requests = 0
    /\ docs_dir_exists \in BOOLEAN
    /\ response = <<>>
    /\ sug_warned = FALSE
    /\ sug_error = "none"
    /\ sug_pc = "call"
    /\ sug_ret = NoValue

\* Lines 472-528: docs_dir is created when missing, the project is
\* analysed, the documents are read and the messages are built.
SugPrepare ==
    /\ sug_pc = "call"
    /\ docs_dir_exists' = TRUE
    /\ sug_pc' = "llm"
    /\ UNCHANGED <<provider, llm_requests, response, sug_warned, sug_error,
                   sug_ret>>
    /\ UNCHANGED OutsideSuggest

\* Lines 175-177 of _call_llm: self.provider is read before the try of
\* line 216; unset, the AttributeError leaves suggest_doc_updates.
SugNoProvider ==
    /\ sug_pc = "llm"
    /\ provider = "unset"
    /\ sug_error' = "AttributeError"
    /\ sug_pc' = "raised"
    /\ UNCHANGED <<provider, llm_requests, docs_dir_exists, response,
                   sug_warned, sug_ret>>
    /\ UNCHANGED OutsideSuggest

\* Lines 216-229: one requests.post; a transport failure, a non-success
\* status, a timeout or a reply of another shape is raised again as
\* "LLM API call failed" and leaves suggest_doc_updates.
SugCallFails ==
    /\ sug_pc = "llm"
    /\ provider = "resolved"
    /\ llm_requests' = llm_requests + 1
    /\ sug_error' = "LLM API call failed"
    /\ sug_pc' = "raised"
    /\ UNCHANGED <<provider, docs_dir_exists, response, sug_warned, sug_ret>>
    /\ UNCHANGED OutsideSuggest

\* Lines 216-226, 530: one requests.post, and the model's text is returned.
SugCallReplies ==
    /\ sug_pc = "llm"
    /\ provider = "resolved"
    /\ llm_requests' = llm_requests + 1
    /\ \E text \in ReplyTexts : response' = text
    /\ sug_pc' = "parse"
    /\ UNCHANGED <<provider, docs_dir_exists, sug_warned, sug_error, sug_ret>>
    /\ UNCHANGED OutsideSuggest

\* Mutant: the JSONDecodeError is not caught.
ParseReply_Propagate(text) ==
    IF JsonValid(text)
    THEN [ret |-> JsonLoads(text), warned |-> FALSE, error |-> "none"]
    ELSE [ret |-> NoValue, warned |-> FALSE, error |-> "JSONDecodeError"]

\* What the try statement of lines 531-535 makes of the reply: the value
\* returned, whether the warning was printed, and the exception raised.
ParseReply(text) ==
    IF JsonValid(text)
    THEN [ret |-> JsonLoads(text), warned |-> FALSE, error |-> "none"]
    ELSE [ret |-> EmptySuggestions, warned |-> TRUE, error |-> "none"]

\* Lines 531-535
SugParse ==
    /\ sug_pc = "parse"
    /\ sug_ret' = ParseReply(response).ret
    /\ sug_warned' = ParseReply(response).warned
    /\ sug_error' = ParseReply(response).error
    /\ sug_pc' = IF ParseReply(response).error = "none"
                 THEN "returned" ELSE "raised"
    /\ UNCHANGED <<provider, llm_requests, docs_dir_exists, response>>
    /\ UNCHANGED OutsideSuggest

\* ---------------------------------------------- apply_doc_patches (600-669)

KwPatchStart == <<"P", "A", "T", "C", "H", "_", "S", "T", "A", "R", "T">>
KwPatchEnd == <<"P", "A", "T", "C", "H", "_", "E", "N", "D">>
KwSection == <<"S", "E", "C", "T", "I", "O", "N", ":">>
KwAction == <<"A", "C", "T", "I", "O", "N", ":">>
KwContent == <<"C", "O", "N", "T", "E", "N", "T", ":">>
KwReplace == <<"R", "E", "P", "L", "A", "C", "E">>
KwInsertAfter == <<"I", "N", "S", "E", "R", "T", "_", "A", "F", "T", "E", "R">>
KwInsertBefore == <<"I", "N", "S", "E", "R", "T", "_", "B", "E", "F", "O", "R", "E">>
KwDelete == <<"D", "E", "L", "E", "T", "E">>

\* current_patch = {} (line 615); keys holds the keys that are set.
EmptyPatch == [keys |-> {}, section |-> <<>>, action |-> <<>>, content |-> <<>>]

\* Lines 609-610; open is "current_patch is not None".
PatchParseStart == [patches |-> <<>>, cur |-> EmptyPatch, open |-> FALSE]

\* Lines 621-628: a line inside a patch.
PatchField(cur, line) ==
    IF StartsWith(line, KwSection)
    THEN [cur EXCEPT !.keys = @ \cup {"section"},
                     !.section = Strip(SubSeq(line, 9, Len(line)))]
    ELSE IF StartsWith(line, KwAction)
    THEN [cur EXCEPT !.keys = @ \cup {"action"},
                     !.action = Strip(SubSeq(line, 8, Len(line)))]
    ELSE IF StartsWith(line, KwContent)
    THEN [cur EXCEPT !.keys = @ \cup {"content"}, !.content = <<>>]
    ELSE IF "content" \in cur.keys
    THEN [cur EXCEPT !.content = Append(@, line)]
    ELSE cur

\* One iteration of the loop of lines 612-628.
PatchLine(st, raw) ==
    LET line == Strip(raw) IN
    IF line = KwPatchStart
    THEN [st EXCEPT !.cur = EmptyPatch, !.open = TRUE]
    ELSE IF line = KwPatchEnd
    THEN [patches |-> IF st.open /\ st.cur.keys # {}
                      THEN Append(st.patches, st.cur) ELSE st.patches,
          cur |-> EmptyPatch, open |-> FALSE]
    ELSE IF st.open
    THEN [st EXCEPT !.cur = PatchField(st.cur, line)]
    ELSE st

RECURSIVE PatchLines(_, _)
PatchLines(st, ls) ==
    IF ls = <<>> THEN st ELSE PatchLines(PatchLine(st, ls[1]), Tail(ls))

\* Lines 608-628
ParsePatches(text) == PatchLines(PatchParseStart, Split(text)).patches

\* Index of the first line that contains section, 0 when none does
\* (the loops of lines 648-649 and 654-655).
FirstMatch(ls, section) ==
    IF \E i \in 1..Len(ls) : Contains(ls[i], section)
    THEN CHOOSE i \in 1..Len(ls) :
            /\ Contains(ls[i], section)
            /\ \A j \in 1..(i - 1) : ~Contains(ls[j], section)
    ELSE 0

\* lines.insert(at, item), at counted from 1
InsertAt(ls, at, item) ==
    SubSeq(ls, 1, at - 1) \o <<item>> \o SubSeq(ls, at, Len(ls))

\* INSERT_AFTER that goes on to the last line that contains section.
InsertAfter_LastMatch(ls, section, item) ==
    LET hits == {i \in 1..Len(ls) : Contains(ls[i], section)} IN
    IF hits = {} THEN [lines |-> ls, hit |-> FALSE]
    ELSE LET i == CHOOSE k \in hits : \A j \in hits : j <= k IN
         [lines |-> InsertAt(ls, i + 1, item), hit |-> TRUE]

\* Lines 647-652: INSERT_AFTER
InsertAfter(ls, section, item) ==
    LET i == FirstMatch(ls, section) IN
    IF i = 0 THEN [lines |-> ls, hit |-> FALSE]
    ELSE [lines |-> InsertAt(ls, i + 1, item), hit |-> TRUE]

\* Lines 653-658: INSERT_BEFORE
InsertBefore(ls, section, item) ==
    LET i == FirstMatch(ls, section) IN
    IF i = 0 THEN [lines |-> ls, hit |-> FALSE]
    ELSE [lines |-> InsertAt(ls, i, item), hit |-> TRUE]

\* Line 645: every line but the last gets a newline.
WithNewlines(parts) ==
    [k \in 1..Len(parts) |->
        IF k < Len(parts) THEN parts[k] \o <<NL>> ELSE parts[k]]

\* Lines 640-646: REPLACE
ReplaceSection(ls, section, content) ==
    LET original_text == Join(ls, <<NL>>) IN
    IF Contains(original_text, section)
    THEN [lines |-> WithNewlines(Split(Replace(original_text, section, content))),
          hit |-> TRUE]
    ELSE [lines |-> ls, hit |-> FALSE]

\* One iteration of the loop of lines 632-658: the lines after the
\* directive, and whether it set modified.
ApplyPatch(ls, patch) ==
    IF "section" \notin patch.keys \/ "action" \notin patch.keys
    THEN [lines |-> ls, hit |-> FALSE]
    ELSE LET content == Join(patch.content, <<NL>>) IN
         IF patch.action = KwReplace
         THEN ReplaceSection(ls, patch.section, content)
         ELSE IF patch.action = KwInsertAfter
         THEN InsertAfter(ls, patch.section, content \o <<NL>>)
         ELSE IF patch.action = KwInsertBefore
         THEN InsertBefore(ls, patch.section, content \o <<NL>>)
         ELSE [lines |-> ls, hit |-> FALSE]

\* A directive as the model writes it: the start marker, the fields that
\* are present, the end marker.
Directive(section, action, content) ==
    <<KwPatchStart>> \o section \o action \o content \o <<KwPatchEnd>>
SectionLine(id) == << KwSection \o <<" ">> \o id >>
ActionLine(kw) == << KwAction \o <<" ">> \o kw >>
ContentLines(ls) == <<KwContent>> \o ls

SecB == <<"b">>
SecZ == <<"z">>
LineX == <<"X">>
LineY == <<"Y">>

\* The directives a patches_text is made of: inserts and replacements whose
\* section occurs in some lines, in none, or is empty; content of two lines,
\* of one, and none; an indented directive; a DELETE after a line of prose;
\* a directive without SECTION and one without ACTION.
DirectiveSet == {
    Directive(SectionLine(SecB), ActionLine(KwInsertAfter), ContentLines(<<LineX, LineY>>)),
    Directive(SectionLine(SecZ), ActionLine(KwInsertAfter), ContentLines(<<LineX>>)),
    Directive(SectionLine(<<>>), ActionLine(KwInsertAfter), ContentLines(<<LineX>>)),
    Directive(SectionLine(SecB), ActionLine(KwInsertAfter), <<>>),
    Directive(<< <<" ", " ">> \o KwSection \o SecB >>,
              << <<" ">> \o KwAction \o <<" ", " ">> \o KwInsertBefore \o <<" ">> >>,
              <<KwContent, <<" ">> \o LineX \o <<" ">> >>),
    Directive(SectionLine(SecZ), ActionLine(KwInsertBefore), ContentLines(<<LineX>>)),
    Directive(SectionLine(SecB), ActionLine(KwReplace), ContentLines(<<LineX>>)),
    Directive(SectionLine(SecB), ActionLine(KwReplace), ContentLines(<<SecB>>)),
    Directive(SectionLine(SecZ), ActionLine(KwReplace), ContentLines(<<LineX>>)),
    << <<"o", "k">> >>
        \o Directive(SectionLine(SecB), ActionLine(KwDelete), ContentLines(<<LineX>>)),
    Directive(<<>>, ActionLine(KwReplace), ContentLines(<<LineX>>)),
    Directive(SectionLine(SecB), <<>>, ContentLines(<<LineX>>)) }

\* The patches_text of a sequence of directives: their lines, a newline
\* after each.
PatchesTexts ==
    {Concat(WithNewlines(Concat(ds) \o << <<>> >>)) :
        ds \in SeqsUpTo(DirectiveSet, MaxPatches)}

\* The lines of a documentation file.
DocLines == {<<"a">>, <<"b", "a">>}

\* The documentation files: no file, and the texts of at most MaxDocLines
\* lines, with and without a newline at the end.
DocFiles ==
    {[exists |-> FALSE, text |-> <<>>]}
    \cup {[exists |-> TRUE, text |-> Join(ls, <<NL>>)] :
            ls \in SeqsUpTo(DocLines, MaxDocLines)}
    \cup {[exists |-> TRUE, text |-> Join(ls, <<NL>>) \o <<NL>>] :
            ls \in SeqsUpTo(DocLines, MaxDocLines)}

DocsIdle ==
    /\ doc_file = [exists |-> FALSE, text |-> <<>>] /\ patches_text = <<>>
    /\ doc_before = doc_file
    /\ patches = <<>> /\ lines = <<>> /\ modified = FALSE /\ patch_i = 0
    /\ doc_changed = {} /\ doc_writes = 0 /\ doc_pc = "idle"
    /\ doc_ret = "none"

InitDocs ==
    /\ doc_file \in DocFiles
    /\ doc_before = doc_file
    /\ patches_text \in PatchesTexts
    /\ patches = <<>> /\ lines = <<>> /\ modified = FALSE /\ patch_i = 0
    /\ doc_changed = {} /\ doc_writes = 0 /\ doc_pc = "call"
    /\ doc_ret = "none"

\* Lines 602-631: the file is read (no lines when it cannot be), the
\* directives are parsed.
DocRead ==
    /\ doc_pc = "call"
    /\ lines' = IF doc_file.exists THEN ReadLines(doc_file.text) ELSE <<>>
    /\ patches' = ParsePatches(patches_text)
    /\ modified' = FALSE
    /\ patch_i' = 1
    /\ doc_pc' = "apply"
    /\ UNCHANGED <<doc_file, doc_before, patches_text, doc_changed, doc_writes,
                   doc_ret>>
    /\ UNCHANGED OutsideDocs

\* Lines 632-658: the next directive.
DocApply ==
    /\ doc_pc = "apply"
    /\ patch_i <= Len(patches)
    /\ LET r == ApplyPatch(lines, patches[patch_i]) IN
          /\ lines' = r.lines
          /\ modified' = (modified \/ r.hit)
          /\ doc_changed' = IF Concat(r.lines) # Concat(lines)
                            THEN doc_changed \cup {patch_i} ELSE doc_changed
    /\ patch_i' = patch_i + 1
    /\ UNCHANGED <<doc_file, doc_before, patches_text, patches, doc_writes,
                   doc_pc, doc_ret>>
    /\ UNCHANGED OutsideDocs

\* Lines 660-664: modified: the lines are written and True is returned.
DocWrite ==
    /\ doc_pc = "apply"
    /\ patch_i > Len(patches)
    /\ modified
    /\ doc_file' = [exists |-> TRUE, text |-> Concat(lines)]
    /\ doc_writes' = doc_writes + 1
    /\ doc_ret' = "True"
    /\ doc_pc' = "done"
    /\ UNCHANGED <<doc_before, patches_text, patches, lines, modified, patch_i,
                   doc_changed>>
    /\ UNCHANGED OutsideDocs

\* Lines 665-667: the write raises: the message, and False is returned.
\* The file is as it was when open() failed, empty when open() had
\* truncated it.
DocWriteFails ==
    /\ doc_pc = "apply"
    /\ patch_i > Len(patches)
    /\ modified
    /\ \/ doc_file' = doc_file /\ doc_writes' = doc_writes
       \/ doc_file' = [exists |-> TRUE, text |-> <<>>]
          /\ doc_writes' = doc_writes + 1
    /\ doc_ret' = "False"
    /\ doc_pc' = "done"
    /\ UNCHANGED <<doc_before, patches_text, patches, lines, modified, patch_i,
                   doc_changed>>
    /\ UNCHANGED OutsideDocs

\* Line 669: nothing was modified: return False.
DocNoWrite ==
    /\ doc_pc = "apply"
    /\ patch_i > Len(patches)
    /\ ~modified
    /\ doc_ret' = "False"
    /\ doc_pc' = "done"
    /\ UNCHANGED <<doc_file, doc_before, patches_text, patches, lines, modified,
                   patch_i, doc_changed, doc_writes>>
    /\ UNCHANGED OutsideDocs

\* ------------------- generate_commit_message (374-398), _call_llm (172-229)

\* The keys of ProviderConfig.get_providers (lines 36-75).
ProviderNames == {"openrouter", "openai", "anthropic", "gemini"}

\* Lines 191, 213-214: the path the request is posted to.
Endpoint(name) ==
    [provider |-> name,
     path |-> IF name = "anthropic" THEN "/messages" ELSE "/chat/completions"]

\* Lines 183-211: the request; Anthropic gets the system message apart.
Request(name, difftext) ==
    [endpoint |-> Endpoint(name),
     system_apart |-> (name = "anthropic"),
     user |-> difftext,
     timeout |-> 30]

\* The characters of the model's messages.
MsgChars == {"f", " ", NL}

\* What requests.post and the lines 217-226 can meet: no connection, no
\* answer within the timeout, a non-success status (raise_for_status), a body
\* that is not JSON, JSON of another shape, JSON whose content is null, and
\* JSON whose content is a text.
FailureKinds ==
    {"connection_error", "timeout", "http_error", "not_json", "wrong_shape"}
Replies ==
    {[kind |-> k, content |-> <<>>] : k \in FailureKinds \cup {"null_content"}}
    \cup {[kind |-> "ok", content |-> t] : t \in SeqsUpTo(MsgChars, MaxMsgLen)}

NoReply == [kind |-> "none", content |-> <<>>]
NoError == [type |-> "none", cause |-> "none"]
NoReturn == [kind |-> "none", text |-> <<>>]

\* Line 229: raise Exception(f"LLM API call failed for {name}: {e}")
CallFailed(cause) == [type |-> "LLM API call failed", cause |-> cause]

\* One more request after a failed one, once.
AfterPost_RetryOnce(reply, sent) ==
    IF reply.kind \in FailureKinds
    THEN IF sent < 2
         THEN [pc |-> "post", error |-> NoError, ret |-> NoReturn]
         ELSE [pc |-> "raised", error |-> CallFailed(reply.kind), ret |-> NoReturn]
    ELSE IF reply.kind = "ok"
    THEN [pc |-> "returned", error |-> NoError,
          ret |-> [kind |-> "str", text |-> reply.content]]
    ELSE [pc |-> "returned", error |-> NoError,
          ret |-> [kind |-> "None", text |-> <<>>]]

\* Lines 216-229 after requests.post: where the call goes on, the exception
\* raised and the value returned; sent is the number of requests posted.
AfterPost(reply, sent) ==
    IF reply.kind \in FailureKinds
    THEN [pc |-> "raised", error |-> CallFailed(reply.kind), ret |-> NoReturn]
    ELSE IF reply.kind = "ok"
    THEN [pc |-> "returned", error |-> NoError,
          ret |-> [kind |-> "str", text |-> reply.content]]
    ELSE [pc |-> "returned", error |-> NoError,
          ret |-> [kind |-> "None", text |-> <<>>]]

\* The staged diffs a commit message is asked for.
StagedDiffs == {OneHunkDiff(p) : p \in Paths} \cup {TwoHunkDiff(p) : p \in Paths}

LlmIdle ==
    /\ provider_name = "unset" /\ staged_diff = <<>> /\ http_log = <<>>
    /\ http_reply = NoReply /\ call_error = NoError /\ call_ret = NoReturn
    /\ gcm_ret = NoReturn /\ call_pc = "idle"

InitLlm ==
    /\ provider_name \in ProviderNames \cup {"unset"}
    /\ staged_diff \in StagedDiffs
    /\ http_log = <<>> /\ http_reply = NoReply /\ call_error = NoError
    /\ call_ret = NoReturn /\ gcm_ret = NoReturn
    /\ call_pc = "call"

\* Lines 376-398: the messages are built and _call_llm is entered.
GcmBuildMessages ==
    /\ call_pc = "call"
    /\ call_pc' = "headers"
    /\ UNCHANGED <<provider_name, staged_diff, http_log, http_reply, call_error,
                   call_ret, gcm_ret>>
    /\ UNCHANGED OutsideLlm

\* Lines 175-177: self.provider is read; never assigned, the AttributeError
\* leaves _call_llm and generate_commit_message.
CallNoProvider ==
    /\ call_pc = "headers"
    /\ provider_name = "unset"
    /\ call_error' = [type |-> "AttributeError", cause |-> "provider"]
    /\ call_pc' = "raised"
    /\ UNCHANGED <<provider_name, staged_diff, http_log, http_reply, call_ret,
                   gcm_ret>>
    /\ UNCHANGED OutsideLlm

\* Lines 175-214: headers, model name, request data and endpoint.
CallBuildRequest ==
    /\ call_pc = "headers"
    /\ provider_name # "unset"
    /\ call_pc' = "post"
    /\ UNCHANGED <<provider_name, staged_diff, http_log, http_reply, call_error,
                   call_ret, gcm_ret>>
    /\ UNCHANGED OutsideLlm

\* Lines 216-229: the request is posted and answered.
CallPost ==
    /\ call_pc = "post"
    /\ http_log' = Append(http_log, Request(provider_name, staged_diff))
    /\ \E reply \in Replies :
          /\ http_reply' = reply
          /\ LET r == AfterPost(reply, Len(http_log) + 1) IN
                /\ call_pc' = r.pc
                /\ call_error' = r.error
                /\ call_ret' = r.ret
    /\ UNCHANGED <<provider_name, staged_diff, gcm_ret>>
    /\ UNCHANGED OutsideLlm

\* Line 398: .strip() of what _call_llm returned.
GcmStrip ==
    /\ call_pc = "returned"
    /\ call_ret.kind = "str"
    /\ gcm_ret' = [kind |-> "str", text |-> Strip(call_ret.text)]
    /\ call_pc' = "done"
    /\ UNCHANGED <<provider_name, staged_diff, http_log, http_reply, call_error,
                   call_ret>>
    /\ UNCHANGED OutsideLlm

\* Line 398: None has no strip.
GcmStripFails ==
    /\ call_pc = "returned"
    /\ call_ret.kind = "None"
    /\ call_error' = [type |-> "AttributeError", cause |-> "strip"]
    /\ call_pc' = "raised"
    /\ UNCHANGED <<provider_name, staged_diff, http_log, http_reply, call_ret,
                   gcm_ret>>
    /\ UNCHANGED OutsideLlm

\* ------------------------------------------------------- main (783-953)

\* args.commit_message: None without -m, the text given with it, which can
\* be empty.
NoOverride == [given |-> FALSE, text |-> <<>>]
Overrides ==
    {[given |-> TRUE, text |-> <<>>], [given |-> TRUE, text |-> <<" ", "m", " ">>]}

\* The command lines, after parse_args: --api-key is required and given;
\* each other option is given or not.
ArgSets ==
    [docs_only : BOOLEAN, docs_dir : BOOLEAN, interactive : BOOLEAN,
     auto_stage : BOOLEAN, commit_message : {NoOverride} \cup Overrides]

\* git rev-parse --show-toplevel (line 164) succeeds, exits non-zero outside
\* a working tree, or cannot be run at all.
GitEnvs == {"repo", "not_a_repo", "no_git"}

\* print(...)
Printed(text) == [ev |-> "print", text |-> text]

\* Lines 949-953: the message of the caught exception is printed and the
\* process exits with status 1.
ErrorExit(log, cause) == [out |-> Append(log, Printed(<<"Error", cause>>)), status |-> 1]

MainIdle ==
    /\ args = [docs_only |-> FALSE, docs_dir |-> FALSE, interactive |-> FALSE,
               auto_stage |-> FALSE, commit_message |-> NoOverride]
    /\ git_env = "repo" /\ changed_files = <<>> /\ main_out = <<>>
    /\ main_raised = "none" /\ commits = 0 /\ exit_status = -1
    /\ main_pc = "idle"

InitMain ==
    /\ args \in ArgSets
    /\ git_env \in GitEnvs
    /\ changed_files \in FileLists \cup {<<>>}
    /\ main_out = <<>> /\ main_raised = "none" /\ commits = 0
    /\ exit_status = -1
    /\ main_pc = "start"

\* Lines 800, 155-168: the tool is constructed in a working tree.
MainConstruct ==
    /\ main_pc = "start"
    /\ git_env = "repo"
    /\ main_pc' = "mode"
    /\ UNCHANGED <<args, git_env, changed_files, main_out, main_raised, commits,
                   exit_status, modified_files>>
    /\ UNCHANGED OutsideMain

\* Lines 800, 163-170, 949-953: git rev-parse fails (the exception of line
\* 170) or git cannot be run (the OSError of subprocess.run passes line 169).
MainConstructFails ==
    /\ main_pc = "start"
    /\ git_env # "repo"
    /\ LET cause == IF git_env = "not_a_repo" THEN "Not in a git repository"
                    ELSE "OSError"
           r == ErrorExit(main_out, cause)
       IN /\ main_raised' = cause
          /\ main_out' = r.out
          /\ exit_status' = r.status
    /\ main_pc' = "exited"
    /\ UNCHANGED <<args, git_env, changed_files, commits, modified_files>>
    /\ UNCHANGED OutsideMain

\* Lines 802-805, 949-953: documentation mode: the argument of line 805 is
\* the name docs_dir, which main never binds.
MainDocsMode ==
    /\ main_pc = "mode"
    /\ args.docs_only /\ args.docs_dir
    /\ LET cause == "name 'docs_dir' is not defined"
           r == ErrorExit(Append(main_out, Printed(<<"Analyzing">>)), cause)
       IN /\ main_raised' = "NameError"
          /\ main_out' = r.out
          /\ exit_status' = r.status
    /\ main_pc' = "exited"
    /\ UNCHANGED <<args, git_env, changed_files, commits, modified_files>>
    /\ UNCHANGED OutsideMain

\* Lines 847-850: nothing is modified: main returns, the process ends with
\* status 0.
MainNoModifiedFiles ==
    /\ main_pc = "mode"
    /\ ~(args.docs_only /\ args.docs_dir)
    /\ changed_files = <<>>
    /\ modified_files' = changed_files
    /\ main_out' = Append(main_out, Printed(<<"No modified files found!">>))
    /\ exit_status' = 0
    /\ main_pc' = "exited"
    /\ UNCHANGED <<args, git_env, changed_files, main_raised, commits>>
    /\ UNCHANGED OutsideMain

\* Lines 847-854, 949-953: some file is modified: the list is printed, and
\* line 854 reads the name auto_stage, which main never binds.
MainChooseStaging ==
    /\ main_pc = "mode"
    /\ ~(args.docs_only /\ args.docs_dir)
    /\ changed_files # <<>>
    /\ modified_files' = changed_files
    /\ LET cause == "name 'auto_stage' is not defined"
           r == ErrorExit(Append(main_out,
                    Printed(<<"Modified files", changed_files>>)), cause)
       IN /\ main_raised' = "NameError"
          /\ main_out' = r.out
          /\ exit_status' = r.status
    /\ main_pc' = "exited"
    /\ UNCHANGED <<args, git_env, changed_files, commits>>
    /\ UNCHANGED OutsideMain

\* ------------------------------------------- main from line 854 (854-947)
\* main as written ends at line 854 (MainChooseStaging). What follows is the
\* rest of main with the tests of lines 854 and 858 reading the options
\* args.auto_stage and args.interactive.

\* Line 854 and line 858 as tests of the parsed options.
AutoStageChosen(a) == a.auto_stage
InteractiveChosen(a) == ~a.auto_stage /\ a.interactive
MenuShown(a) == ~a.auto_stage /\ ~a.interactive

\* Line 880: the answers to "Choose option [1/2/3]".
MenuChoices == {"1", "2", "3", "4"}

\* Line 904: the comma-separated entries the operator types: the number of a
\* listed file, a number of no file, and an entry that is no number.
SelectionEntries ==
    {[kind |-> "int", n |-> n] : n \in 0..(MaxFiles + 1)}
    \cup {[kind |-> "text", n |-> 0]}
Selections == SeqsUpTo(SelectionEntries, 2)

\* Lines 905-912: the files the entries select, in the order typed.
RECURSIVE SelectedFiles(_, _)
SelectedFiles(entries, files) ==
    IF entries = <<>> THEN <<>>
    ELSE LET e == entries[1]
             rest == SelectedFiles(Tail(entries), files)
         IN IF e.kind = "int" /\ 0 <= e.n - 1 /\ e.n - 1 < Len(files)
            THEN <<files[e.n]>> \o rest
            ELSE rest

\* Line 943: the answers to "Proceed with commit? [Y/n]".
ConfirmAnswers == {<<>>, <<"y">>, <<"Y">>, <<"y", "e", "s">>, <<"n">>, <<"o", "k">>}

\* str.lower() on the letters of the answers.
LowerChar(c) == IF c = "Y" THEN "y" ELSE c
Lower(t) == [k \in 1..Len(t) |-> LowerChar(t[k])]

\* Line 944
Confirms(answer) == Lower(answer) \in {<<>>, <<"y">>, <<"y", "e", "s">>}

\* Line 931: the override is used when it is given and not empty.
UsesOverride_Never(a) == FALSE
UsesOverride(a) == a.commit_message.given /\ a.commit_message.text # <<>>

\* Lines 400-406: git diff --staged: what stage_hunks applied to the index
\* and what git add put there.
StagedText ==
    Concat([k \in 1..Len(index) |-> index[k].content]) \o Concat(cached)

\* Lines 867-872 after the selection: what main does with the outcome.
AfterSelection_GoOn(out) ==
    IF out \in {"staged", "staging failed"} THEN "staged"
    ELSE IF out = "nothing selected" THEN "return"
    ELSE "raise"
AfterSelection(out) ==
    IF out = "staged" THEN "staged"
    ELSE IF out \in {"staging failed", "nothing selected"} THEN "return"
    ELSE "raise"

\* The answers the endpoint gives in a run of main: a failure, a message,
\* a message with blanks around it.
PipeReplies ==
    {[kind |-> "timeout", content |-> <<>>],
     [kind |-> "ok", content |-> <<"f">>],
     [kind |-> "ok", content |-> <<" ", "f", NL>>]}

\* The files that are modified in a run of main.
PipeFileLists ==
    {fl \in FileLists : \A k \in 1..Len(fl) : fl[k] \in {<<"x">>, <<"y">>}}

PipeIdle ==
    /\ cached = <<>> /\ commit_message = NoReturn /\ commit_calls = <<>>
    /\ events = <<>>

\* What no step of main from line 854 on changes.
PipeFixed ==
    UNCHANGED <<worktree, parseVars, sugVars, docVars, args, git_env,
                changed_files, modified_files, provider_name>>
SelectUntouched ==
    UNCHANGED <<stageVars, mf_i, ish_hunks, hunk_i, selected_hunks,
                all_selected_hunks, console, reprompts, sel_pc, sel_out>>
LlmUntouched ==
    UNCHANGED <<staged_diff, http_log, http_reply, call_error, call_ret,
                gcm_ret, call_pc>>

\* main returns (lines 869, 872, 919, 922, 928, 947): status 0.
PipeReturn(text, event) ==
    /\ main_out' = Append(main_out, Printed(text))
    /\ events' = Append(events, event)
    /\ exit_status' = 0
    /\ main_pc' = "exited"
    /\ UNCHANGED <<main_raised, commits, cached, commit_message, commit_calls>>

\* Lines 949-953: an exception ends main with status 1.
PipeRaise(cause) ==
    /\ main_out' = ErrorExit(main_out, cause).out
    /\ exit_status' = ErrorExit(main_out, cause).status
    /\ main_raised' = cause
    /\ main_pc' = "exited"
    /\ UNCHANGED <<commits, cached, commit_message, commit_calls, events>>

\* subprocess.run(["git", "add", ...], check=True) on the files: they are
\* staged, or git exits non-zero and CalledProcessError is raised.
GitAdd(files) ==
    \/ /\ cached' = cached \o [k \in 1..Len(files) |-> worktree[files[k]]]
       /\ main_out' = Append(main_out, Printed(<<"Staged", files>>))
       /\ events' = Append(events, "staged")
       /\ main_pc' = "staged"
       /\ UNCHANGED <<main_raised, commits, exit_status, commit_message,
                      commit_calls>>
    \/ PipeRaise("CalledProcessError")

\* The sub-lists of a list of files: git add . stages the changes below the
\* current directory.
RECURSIVE SubLists(_)
SubLists(fl) ==
    IF fl = <<>> THEN {<<>>}
    ELSE SubLists(Tail(fl)) \cup {<<fl[1]>> \o r : r \in SubLists(Tail(fl))}

\* The block of lines 860-863 (886-889) is entered.
EnterSelection ==
    /\ sel_pc' = "files" /\ mf_i' = 1
    /\ main_pc' = "selecting"
    /\ UNCHANGED <<stageVars, ish_hunks, hunk_i, selected_hunks,
                   all_selected_hunks, console, reprompts, sel_out>>
    /\ UNCHANGED <<main_out, main_raised, commits, exit_status>>
    /\ UNCHANGED pipeVars

InitPipeline ==
    /\ args \in {a \in ArgSets : ~a.docs_dir}
    /\ git_env = "repo"
    /\ changed_files \in PipeFileLists
    /\ modified_files = changed_files
    /\ worktree \in {w \in [Paths -> UNION {FileDiffs(p) : p \in Paths} \cup {<<>>}] :
          \A p \in Paths :
              IF p \in {changed_files[k] : k \in 1..Len(changed_files)}
              THEN w[p] \in FileDiffs(p) ELSE w[p] = <<>>}
    /\ main_out = <<Printed(<<"Modified files", changed_files>>)>>
    /\ main_raised = "none" /\ commits = 0 /\ exit_status = -1
    /\ main_pc = "staging"
    /\ mf_i = 0 /\ ish_hunks = <<>> /\ hunk_i = 0
    /\ selected_hunks = <<>> /\ all_selected_hunks = <<>> /\ console = <<>>
    /\ reprompts = 0 /\ sel_pc = "idle" /\ sel_out = "none"
    /\ provider_name \in {"unset", "openrouter"}
    /\ staged_diff = <<>> /\ http_log = <<>> /\ http_reply = NoReply
    /\ call_error = NoError /\ call_ret = NoReturn /\ gcm_ret = NoReturn
    /\ call_pc = "idle"
    /\ PipeIdle

\* Lines 854-857: --auto-stage
PipeAutoStage ==
    /\ main_pc = "staging"
    /\ AutoStageChosen(args)
    /\ \E files \in SubLists(modified_files) : GitAdd(files)
    /\ SelectUntouched /\ LlmUntouched /\ PipeFixed

\* Lines 858-863: --interactive
PipeInteractive ==
    /\ main_pc = "staging"
    /\ InteractiveChosen(args)
    /\ EnterSelection
    /\ LlmUntouched /\ PipeFixed

\* Lines 873-884: the menu, answer 1
PipeMenuAddAll ==
    /\ main_pc = "staging"
    /\ MenuShown(args)
    /\ \E files \in SubLists(modified_files) : GitAdd(files)
    /\ SelectUntouched /\ LlmUntouched /\ PipeFixed

\* Lines 873-889: the menu, answer 2
PipeMenuInteractive ==
    /\ main_pc = "staging"
    /\ MenuShown(args)
    /\ EnterSelection
    /\ LlmUntouched /\ PipeFixed

\* Lines 873-919: the menu, answer 3
PipeMenuFiles ==
    /\ main_pc = "staging"
    /\ MenuShown(args)
    /\ \E entries \in Selections :
          LET selected_files == SelectedFiles(entries, modified_files) IN
          IF selected_files # <<>> THEN GitAdd(selected_files)
          ELSE PipeReturn(<<"No files selected">>, "nothing selected")
    /\ SelectUntouched /\ LlmUntouched /\ PipeFixed

\* Lines 873-880, 920-922: the menu, another answer
PipeMenuInvalid ==
    /\ main_pc = "staging"
    /\ MenuShown(args)
    /\ PipeReturn(<<"Invalid choice">>, "invalid choice")
    /\ SelectUntouched /\ LlmUntouched /\ PipeFixed

\* Lines 865-872 (891-898) once the selection and stage_hunks are over.
PipeSelected ==
    /\ main_pc = "selecting"
    /\ sel_pc = "done"
    /\ LET next == AfterSelection(sel_out) IN
          \/ /\ next = "staged"
             /\ events' = Append(events, sel_out)
             /\ main_pc' = "staged"
             /\ UNCHANGED <<main_out, main_raised, commits, exit_status, cached,
                            commit_message, commit_calls>>
          \/ /\ next = "return"
             /\ PipeReturn(<<sel_out>>, sel_out)
          \/ /\ next = "raise"
             /\ PipeRaise("OSError")
    /\ SelectUntouched /\ LlmUntouched /\ PipeFixed

\* Lines 925-928: nothing is staged.
PipeNoStagedDiff ==
    /\ main_pc = "staged"
    /\ StagedText = <<>>
    /\ PipeReturn(<<"No changes staged for commit">>, "staged diff empty")
    /\ SelectUntouched /\ LlmUntouched /\ PipeFixed

\* Lines 925-932: the staged diff is read, the override is the message.
PipeOverride ==
    /\ main_pc = "staged"
    /\ StagedText # <<>>
    /\ UsesOverride(args)
    /\ commit_message' = [kind |-> "str", text |-> args.commit_message.text]
    /\ events' = Append(events, "staged diff read") \o <<"message">>
    /\ main_pc' = "confirm"
    /\ UNCHANGED <<main_out, main_raised, commits, exit_status, cached,
                   commit_calls>>
    /\ SelectUntouched /\ LlmUntouched /\ PipeFixed

\* Lines 925-935: the staged diff is read, generate_commit_message is
\* called with it.
PipeAskModel ==
    /\ main_pc = "staged"
    /\ StagedText # <<>>
    /\ ~UsesOverride(args)
    /\ staged_diff' = StagedText
    /\ call_pc' = "call"
    /\ events' = Append(events, "staged diff read")
    /\ main_out' = Append(main_out, Printed(<<"Generating commit message">>))
    /\ main_pc' = "message"
    /\ UNCHANGED <<http_log, http_reply, call_error, call_ret, gcm_ret>>
    /\ UNCHANGED <<main_raised, commits, exit_status, cached, commit_message,
                   commit_calls>>
    /\ SelectUntouched /\ PipeFixed

\* Lines 216-229 in a run of main.
PipeCallPost ==
    /\ call_pc = "post"
    /\ http_log' = Append(http_log, Request(provider_name, staged_diff))
    /\ \E reply \in PipeReplies :
          /\ http_reply' = reply
          /\ LET r == AfterPost(reply, Len(http_log) + 1) IN
                /\ call_pc' = r.pc
                /\ call_error' = r.error
                /\ call_ret' = r.ret
    /\ UNCHANGED <<provider_name, staged_diff, gcm_ret>>
    /\ UNCHANGED OutsideLlm

\* Line 935: generate_commit_message returned.
PipeMessage ==
    /\ main_pc = "message"
    /\ call_pc = "done"
    /\ commit_message' = gcm_ret
    /\ events' = Append(events, "message")
    /\ main_pc' = "confirm"
    /\ UNCHANGED <<main_out, main_raised, commits, exit_status, cached,
                   commit_calls>>
    /\ SelectUntouched /\ LlmUntouched /\ PipeFixed

\* Lines 935, 949-953: generate_commit_message raised.
PipeMessageFails ==
    /\ main_pc = "message"
    /\ call_pc = "raised"
    /\ PipeRaise(call_error.type)
    /\ SelectUntouched /\ LlmUntouched /\ PipeFixed

\* Lines 937-945, 408-416: the message is shown, the operator confirms,
\* commit_staged_changes is called: git commit succeeds, or exits non-zero
\* and False is returned; main ends.
PipeCommit ==
    /\ main_pc = "confirm"
    /\ \E answer \in ConfirmAnswers : Confirms(answer)
    /\ commit_calls' = Append(commit_calls, commit_message)
    /\ events' = Append(events, "confirmed") \o <<"commit">>
    /\ \/ /\ commits' = commits + 1
          /\ main_out' = main_out \o <<Printed(<<"Proposed", commit_message.text>>),
                                       Printed(<<"Committed", commit_message.text>>)>>
       \/ /\ commits' = commits
          /\ main_out' = main_out \o <<Printed(<<"Proposed", commit_message.text>>),
                                       Printed(<<"Failed to commit changes">>)>>
    /\ exit_status' = 0
    /\ main_pc' = "exited"
    /\ UNCHANGED <<main_raised, cached, commit_message>>
    /\ SelectUntouched /\ LlmUntouched /\ PipeFixed

\* Lines 937-947: the operator declines.
PipeCancel ==
    /\ main_pc = "confirm"
    /\ \E answer \in ConfirmAnswers : ~Confirms(answer)
    /\ main_out' = main_out \o <<Printed(<<"Proposed", commit_message.text>>),
                                 Printed(<<"Commit cancelled">>)>>
    /\ events' = Append(events, "declined")
    /\ exit_status' = 0
    /\ main_pc' = "exited"
    /\ UNCHANGED <<main_raised, commits, cached, commit_message, commit_calls>>
    /\ SelectUntouched /\ LlmUntouched /\ PipeFixed

\* ------------------------------------------------------- specifications

\* get_file_hunks applied to a diff text.
SpecParseInit ==
    InitParse /\ worktree = IdleWorktree /\ StageIdle /\ SelectIdle
    /\ SuggestIdle /\ DocsIdle /\ MainIdle /\ LlmIdle /\ PipeIdle
SpecParseNext == GetFileHunks
SpecParse == SpecParseInit /\ [][SpecParseNext]_vars

\* stage_hunks applied to a hunk sequence.
SpecStageInit ==
    InitStage /\ ParseIdle /\ SelectIdle /\ SuggestIdle /\ DocsIdle
    /\ MainIdle /\ LlmIdle /\ PipeIdle
SpecStageNext ==
    \/ StageEmpty
    \/ StageGroup
    \/ StageWritePatch
    \/ StageApplyOk
    \/ StageApplyFail
    \/ StageApplyError
    \/ StageFinally
    \/ StageReturnTrue
SpecStage == SpecStageInit /\ [][SpecStageNext]_vars

\* The interactive staging block of main (lines 860-872), stage_hunks
\* included.
SpecInteractiveInit ==
    InitSelect /\ ParseIdle /\ StageIdle /\ SuggestIdle /\ DocsIdle
    /\ MainIdle /\ LlmIdle /\ PipeIdle
SpecInteractiveNext ==
    \/ SelFileNoHunks
    \/ SelFileOpen
    \/ AnswerKeep
    \/ AnswerSkip
    \/ AnswerQuit
    \/ AnswerDetail
    \/ AnswerOther
    \/ SelStage
    \/ SelNothing
    \/ SelStaged
    \* stage_hunks, whose argument is never empty here (line 865)
    \/ StageGroup
    \/ StageWritePatch
    \/ StageApplyOk
    \/ StageApplyFail
    \/ StageApplyError
    \/ StageFinally
    \/ StageReturnTrue
SpecInteractive == SpecInteractiveInit /\ [][SpecInteractiveNext]_vars

\* suggest_doc_updates called on a tool object.
SpecSuggestInit ==
    /\ InitSuggest /\ worktree = IdleWorktree
    /\ ParseIdle /\ StageIdle /\ SelectIdle /\ DocsIdle /\ MainIdle /\ LlmIdle /\ PipeIdle
SpecSuggestNext ==
    \/ SugPrepare
    \/ SugNoProvider
    \/ SugCallFails
    \/ SugCallReplies
    \/ SugParse
SpecSuggest == SpecSuggestInit /\ [][SpecSuggestNext]_vars

\* apply_doc_patches applied to a file and a patches_text.
SpecDocsInit ==
    /\ InitDocs /\ worktree = IdleWorktree
    /\ ParseIdle /\ StageIdle /\ SelectIdle /\ SuggestIdle /\ MainIdle /\ LlmIdle /\ PipeIdle
SpecDocsNext ==
    \/ DocRead
    \/ DocApply
    \/ DocWrite
    \/ DocWriteFails
    \/ DocNoWrite
SpecDocs == SpecDocsInit /\ [][SpecDocsNext]_vars

\* main, from the parsed command line to the end of the process.
SpecMainInit ==
    /\ InitMain /\ worktree = IdleWorktree
    /\ ParseIdle /\ StageIdle /\ SelectIdle /\ SuggestIdle /\ DocsIdle
    /\ LlmIdle /\ PipeIdle
SpecMainNext ==
    \/ MainConstruct
    \/ MainConstructFails
    \/ MainDocsMode
    \/ MainNoModifiedFiles
    \/ MainChooseStaging
SpecMain == SpecMainInit /\ [][SpecMainNext]_vars

\* generate_commit_message called with a staged diff.
SpecLlmInit ==
    /\ InitLlm /\ worktree = IdleWorktree
    /\ ParseIdle /\ StageIdle /\ SelectIdle /\ SuggestIdle /\ DocsIdle
    /\ MainIdle /\ PipeIdle
SpecLlmNext ==
    \/ GcmBuildMessages
    \/ CallNoProvider
    \/ CallBuildRequest
    \/ CallPost
    \/ GcmStrip
    \/ GcmStripFails
SpecLlm == SpecLlmInit /\ [][SpecLlmNext]_vars

\* main from line 854 on, with the hunks selected, staged, the message
\* asked for and the commit made by the steps of the components.
SpecPipelineInit ==
    /\ InitPipeline /\ ParseIdle /\ StageIdle /\ SuggestIdle /\ DocsIdle
SpecPipelineNext ==
    \/ PipeAutoStage
    \/ PipeInteractive
    \/ PipeMenuAddAll
    \/ PipeMenuInteractive
    \/ PipeMenuFiles
    \/ PipeMenuInvalid
    \/ SelFileNoHunks
    \/ SelFileOpen
    \/ AnswerKeep
    \/ AnswerSkip
    \/ AnswerQuit
    \/ AnswerDetail
    \/ AnswerOther
    \/ SelStage
    \/ SelNothing
    \/ SelStaged
    \/ StageGroup
    \/ StageWritePatch
    \/ StageApplyOk
    \/ StageApplyFail
    \/ StageApplyError
    \/ StageFinally
    \/ StageReturnTrue
    \/ PipeSelected
    \/ PipeNoStagedDiff
    \/ PipeOverride
    \/ PipeAskModel
    \/ GcmBuildMessages
    \/ CallNoProvider
    \/ CallBuildRequest
    \/ PipeCallPost
    \/ GcmStrip
    \/ PipeMessage
    \/ PipeMessageFails
    \/ PipeCommit
    \/ PipeCancel
SpecPipeline == SpecPipelineInit /\ [][SpecPipelineNext]_vars

\* --------------------------------------------------------------- claims

IsMarker(line) == StartsWith(line, <<"@", "@">>)
IsBody(line) == line # <<>> /\ line[1] \in {"+", "-", " "}
MarkerLines(ls) == SelectSeq(ls, IsMarker)

\* Every marker line is followed, before the next marker line, by at least
\* one body line.
WellFormedDiff(ls) ==
    \A i \in 1..Len(ls) :
        IsMarker(ls[i]) =>
            \E j \in (i + 1)..Len(ls) :
                /\ IsBody(ls[j])
                /\ \A k \in (i + 1)..j : ~IsMarker(ls[k])

\* C1: for a well-formed diff text of one file with N marker lines,
\* get_file_hunks returns N records, the i-th record's header is the i-th
\* marker line, and every record carries the path that was parsed.
C1_OneHunkPerMarker ==
    (gfh_pc = "done" /\ WellFormedDiff(Split(diff))) =>
        LET ms == MarkerLines(Split(diff)) IN
        /\ Len(parsed_hunks) = Len(ms)
        /\ \A i \in 1..Len(ms) :
              /\ parsed_hunks[i].header = ms[i]
              /\ parsed_hunks[i].filepath = filepath

C1_Witness ==
    /\ gfh_pc = "done"
    /\ WellFormedDiff(Split(diff))
    /\ Len(MarkerLines(Split(diff))) = 2
    /\ Len(parsed_hunks) = 2
    /\ parsed_hunks[1].header # parsed_hunks[2].header

\* The paths occurring in a hunk sequence.
PathsOf(hs) == {hs[i].filepath : i \in 1..Len(hs)}

\* The hunks of a sequence that belong to a path, in the sequence's order.
HunksOfPath(hs, path) ==
    LET OfPath(h) == h.filepath = path IN SelectSeq(hs, OfPath)

\* The lines of a hunk sequence: each header, then its body lines.
RECURSIVE HunkLines(_)
HunkLines(hs) ==
    IF hs = <<>> THEN <<>>
    ELSE <<hs[1].header>> \o Split(hs[1].content) \o HunkLines(Tail(hs))

\* The file-pair header of a path: the diff --git line, the placeholder
\* index line, the old path and the new path.
FilePairLines(path) ==
    << <<"d", "i", "f", "f", " ", "-", "-", "g", "i", "t", " ", "a", "/">>
         \o path \o <<" ", "b", "/">> \o path,
       <<"i", "n", "d", "e", "x", " ", "0", "0", "0", "0", "0", "0", "0",
         ".", ".", "1", "1", "1", "1", "1", "1", "1", " ", "1", "0", "0",
         "6", "4", "4">>,
       <<"-", "-", "-", " ", "a", "/">> \o path,
       <<"+", "+", "+", " ", "b", "/">> \o path >>

\* A document is the file-pair header of its path followed by exactly the
\* input's hunks of that path, each once, and a final newline.
DocHoldsItsHunks(doc) ==
    Split(doc.content) =
        FilePairLines(doc.filepath)
        \o HunkLines(HunksOfPath(hunks, doc.filepath))
        \o << <<>> >>

DistinctDocs ==
    \A a, b \in 1..Len(written) :
        written[a].filepath = written[b].filepath => a = b

\* C2 as stated: when stage_hunks is over, one document was built for
\* every distinct path of the input, holding exactly that path's hunks.
C2_OneDocPerPath ==
    (stage_pc = "done" /\ hunks # <<>>) =>
        /\ DistinctDocs
        /\ PathsOf(written) = PathsOf(hunks)
        /\ \A k \in 1..Len(written) : DocHoldsItsHunks(written[k])

\* C2, amended: at most one document is built per distinct path of the
\* input, one for every path when stage_hunks returns True (a failed apply
\* ends the call before the later paths' documents are built), and each
\* document built holds the file-pair header of its path followed by
\* exactly the input's hunks of that path.
C2_OneDocPerPathUntilFailure ==
    /\ DistinctDocs
    /\ PathsOf(written) \subseteq PathsOf(hunks)
    /\ \A k \in 1..Len(written) : DocHoldsItsHunks(written[k])
    /\ stage_ret = "True" => PathsOf(written) = PathsOf(hunks)

C2_Witness ==
    /\ stage_ret = "True"
    /\ Len(written) = 2
    /\ Len(hunks) = 3
    /\ hunks[1].filepath = hunks[3].filepath
    /\ hunks[1].filepath # hunks[2].filepath

\* Position of a hunk in a hunk sequence, 0 when it is not in it.
PositionIn(hs, header, content) ==
    IF \E i \in 1..Len(hs) : hs[i].header = header /\ hs[i].content = content
    THEN CHOOSE i \in 1..Len(hs) :
            hs[i].header = header /\ hs[i].content = content
    ELSE 0

\* The hunks of a document are in ascending order of their positions in
\* the diff of the document's file.
DocAscending(doc) ==
    LET orig == get_file_hunks(doc.filepath, worktree[doc.filepath])
        inDoc == get_file_hunks(doc.filepath, doc.content)
    IN \A a, b \in 1..Len(inDoc) :
          a < b => PositionIn(orig, inDoc[a].header, inDoc[a].content)
                     < PositionIn(orig, inDoc[b].header, inDoc[b].content)

\* C3: in every patch document stage_hunks produces, the hunks of the file
\* are in ascending order of their original position, whatever the order
\* in which they were supplied.
C3_DocsAscending == \A k \in 1..Len(written) : DocAscending(written[k])

\* The documents whose apply succeeded, in order.
RECURSIVE AppliedDocs(_)
AppliedDocs(calls) ==
    IF calls = <<>> THEN <<>>
    ELSE (IF calls[1].result = "ok" THEN <<written[calls[1].patch]>> ELSE <<>>)
         \o AppliedDocs(Tail(calls))

\* C4: after a failed apply no later apply is attempted and stage_hunks
\* returns False; what was applied before stays applied; stage_hunks
\* returns True only if the apply succeeded for every file.
C4_AbortOnFailure ==
    /\ \A k \in 1..(Len(git_calls) - 1) : git_calls[k].result = "ok"
    /\ index = AppliedDocs(git_calls)
    /\ (stage_pc = "done" /\ git_calls # <<>>
          /\ git_calls[Len(git_calls)].result = "fail") => stage_ret = "False"
    /\ stage_ret = "True" =>
          /\ Len(git_calls) = Cardinality(PathsOf(hunks))
          /\ \A k \in 1..Len(git_calls) : git_calls[k].result = "ok"
          /\ PathsOf(index) = PathsOf(hunks)

\* The apply failed for the second of three files, the first is applied.
C4_Witness ==
    /\ stage_pc = "done"
    /\ stage_ret = "False"
    /\ Len(files_hunks) = 3
    /\ Len(git_calls) = 2
    /\ git_calls[2].result = "fail"
    /\ Len(index) = 1
    /\ index[1].filepath = files_hunks[1].filepath

\* C5: at most one temporary patch file exists at any moment, and none
\* when stage_hunks is over, whether the apply succeeded or failed.
C5_TempFilesRemoved ==
    /\ Cardinality(tmpfiles) <= 1
    /\ stage_pc = "done" => tmpfiles = {}

C5_Witness ==
    /\ stage_pc = "done"
    /\ Len(written) = 2
    /\ git_calls[1].result = "ok"
    /\ git_calls[2].result = "fail"
    /\ tmpfiles = {}

\* The hunks answered 'y' in the first n entries of the console.
RECURSIVE KeptIn(_, _)
KeptIn(log, n) ==
    IF n = 0 THEN <<>>
    ELSE KeptIn(log, n - 1)
         \o (IF log[n].ev = "input" /\ log[n].choice = "y"
             THEN LET s == CHOOSE k \in 1..n :
                              /\ log[k].ev = "show"
                              /\ \A j \in (k + 1)..n : log[j].ev # "show"
                  IN <<get_file_hunks(log[s].filepath,
                                      worktree[log[s].filepath])[log[s].i]>>
             ELSE <<>>)

Quits == {k \in 1..Len(console) :
             console[k].ev = "input" /\ console[k].choice = "q"}

IsDirective(patch, kw) ==
    {"section", "action"} \subseteq patch.keys /\ patch.action = kw

\* The positions of the lines of a text that contain section.
MatchingLines(text, section) ==
    {i \in 1..Len(ReadLines(text)) : Contains(ReadLines(text)[i], section)}

\* The least element of a non-empty set of positions.
Least(S) == CHOOSE i \in S : \A j \in S : i <= j

\* The text with the lines of content put after its first at lines.
InsertedAfterLine(text, at, content) ==
    Concat(SubSeq(ReadLines(text), 1, at))
    \o Join(content, <<NL>>) \o <<NL>>
    \o Concat(SubSeq(ReadLines(text), at + 1, Len(ReadLines(text))))

\* The list is the lines of a text as readlines gives them: every element
\* but the last ends with its newline, and none holds another.
LinesOfAFile(ls) == ls = ReadLines(Concat(ls))

\* The step of one directive, taken on the lines of a file, relates the
\* text before it and the text after it as an insertion at the first
\* matching line, or leaves it alone.
InsertsAtFirstMatch ==
    (/\ doc_pc = "apply" /\ patch_i <= Len(patches) /\ patch_i' = patch_i + 1
     /\ LinesOfAFile(lines)) =>
        LET patch == patches[patch_i]
            before == Concat(lines)
            after == Concat(lines')
            hits == MatchingLines(before, patch.section)
        IN /\ IsDirective(patch, KwInsertAfter) /\ Cardinality(hits) >= 2 =>
                after = InsertedAfterLine(before, Least(hits), patch.content)
           /\ IsDirective(patch, KwInsertBefore) /\ Cardinality(hits) >= 2 =>
                after = InsertedAfterLine(before, Least(hits) - 1, patch.content)
           /\ (IsDirective(patch, KwInsertAfter)
                 \/ IsDirective(patch, KwInsertBefore)) /\ hits = {} =>
                after = before

\* C8: an INSERT_AFTER (INSERT_BEFORE) directive whose section occurs in
\* several lines of the file puts its content once, right after (before)
\* the first of these lines, every other line keeping its content and its
\* place among the others; when no line contains the section the directive
\* changes nothing.
C8_InsertAtFirstMatch == [][InsertsAtFirstMatch]_vars

\* C8 witness: the file a, ba, ba; INSERT_AFTER b with content X, Y has been
\* applied, and X, Y stand between the two lines ba.
C8_Witness ==
    /\ doc_pc = "apply" /\ patch_i = 2
    /\ IsDirective(patches[1], KwInsertAfter)
    /\ patches[1].section = SecB /\ patches[1].content = <<LineX, LineY>>
    /\ doc_before.text = <<"a", NL, "b", "a", NL, "b", "a", NL>>
    /\ Concat(lines) = <<"a", NL, "b", "a", NL, "X", NL, "Y", NL, "b", "a", NL>>

\* Every parsed directive is one that has no effect: a DELETE, one without
\* section or action, or one whose section no line of the file contains.
NoDirectiveApplies ==
    \A k \in 1..Len(patches) :
        \/ ~({"section", "action"} \subseteq patches[k].keys)
        \/ patches[k].action = KwDelete
        \/ MatchingLines(doc_before.text, patches[k].section) = {}

\* The second half of C9: directives without effect cause no write, leave
\* the file alone and make the call return False.
NoEffectNoWrite ==
    doc_pc = "done" /\ NoDirectiveApplies =>
        doc_writes = 0 /\ doc_ret = "False" /\ doc_file = doc_before

\* C9: apply_doc_patches writes the file only if a directive changed the
\* file's content; when every directive is a DELETE, lacks section or
\* action, or matches nothing, there is no write, the file is unchanged and
\* the call returns False.
C9_WriteOnlyOnChange ==
    /\ doc_writes > 0 => doc_changed # {}
    /\ NoEffectNoWrite

\* The errors C10 names: not inside a git working tree (or no git at all),
\* and a failed model call.
EnvironmentErrors == {"Not in a git repository", "OSError"}
TransportErrors == {"LLM API call failed"}

\* C10: a run of main that meets an environment error or a transport error
\* prints the cause and exits with a non-zero status, no commit being
\* created; a run that meets neither exits with status 0.
C10_ExitStatus ==
    main_pc = "exited" =>
        IF main_raised \in EnvironmentErrors \cup TransportErrors
        THEN /\ exit_status # 0
             /\ main_out[Len(main_out)] = Printed(<<"Error", main_raised>>)
             /\ commits = 0
        ELSE exit_status = 0

\* The failures C11 names: no connection, a timeout, a non-success status.
TransportFailures == {"connection_error", "timeout", "http_error"}

\* C11: a model call posts at most one request; after a transport failure,
\* a non-success status or a timeout no further request is posted, the call
\* ends with the error "LLM API call failed" that names the cause, and
\* neither _call_llm nor generate_commit_message returns a message.
C11_OneRequestNoRetry ==
    /\ Len(http_log) <= 1
    /\ http_reply.kind \in TransportFailures =>
          /\ call_pc = "raised"
          /\ call_error = CallFailed(http_reply.kind)
          /\ call_ret = NoReturn /\ gcm_ret = NoReturn

\* C11 witness: the one request of a call timed out and the call has
\* raised.
C11_Witness ==
    /\ Len(http_log) = 1 /\ http_reply.kind = "timeout"
    /\ call_pc = "raised" /\ call_error = CallFailed("timeout")

\* The message main holds is the message its source produced: the override
\* as typed, without any request to the model, or what
\* generate_commit_message returned after its one request.
MessageFromItsSource(overridden) ==
    /\ overridden =>
          /\ http_log = <<>>
          /\ commit_message # NoReturn =>
                commit_message.text = args.commit_message.text
    /\ ~overridden /\ commit_message # NoReturn =>
          Len(http_log) = 1 /\ commit_message = gcm_ret

\* The message is obtained at most once, and the commit operation gets it
\* at most once, as it was obtained.
MessagePassedOnce ==
    /\ Cardinality({k \in 1..Len(events) : events[k] = "message"}) <= 1
    /\ Len(commit_calls) <= 1
    /\ commit_calls # <<>> =>
          commit_calls[1] = commit_message /\ commit_message # NoReturn

NoCommitEvents ==
    {"staging failed", "nothing selected", "invalid choice",
     "staged diff empty", "declined"}

SpanEnd(ls, i) ==
    IF \E j \in (i + 1)..Len(ls) : IsMarker(ls[j])
    THEN (CHOOSE j \in (i + 1)..Len(ls) :
             IsMarker(ls[j]) /\ \A k \in (i + 1)..(j - 1) : ~IsMarker(ls[k])) - 1
    ELSE Len(ls)

\* The lines of that span that start with +, - or a space, in order.
BodyOfSpan(ls, i) == SelectSeq(SubSeq(ls, i + 1, SpanEnd(ls, i)), IsBody)

\* C14: every hunk get_file_hunks returns belongs to a marker line of the
\* text, the hunks in the order of their markers, and its body is exactly
\* the lines starting with +, - or a space between its marker and the next
\* marker (or the end), in order; so lines before the first marker and lines
\* with another prefix are in no hunk; a text without marker line, and the
\* empty text, give the empty sequence.
C14_BodyIsSpanLines ==
    gfh_pc = "done" =>
        LET ls == Split(diff)
            n == Len(parsed_hunks)
        IN /\ \E at \in [1..n -> 1..Len(ls)] :
                 /\ \A k \in 1..n :
                       /\ IsMarker(ls[at[k]])
                       /\ parsed_hunks[k].header = ls[at[k]]
                       /\ Split(parsed_hunks[k].content) = BodyOfSpan(ls, at[k])
                 /\ \A k \in 1..(n - 1) : at[k] < at[k + 1]
           /\ MarkerLines(ls) = <<>> => parsed_hunks = <<>>
           /\ diff = <<>> => parsed_hunks = <<>>

\* C14 witness: a line starting with + before the first marker, and in the
\* hunk a line with another prefix: the one hunk holds the one - line.
C14_Witness ==
    /\ gfh_pc = "done"
    /\ Split(diff) = << <<"+", "a">>, MarkerA, <<"\\">>, <<"-", "b">> >>
    /\ parsed_hunks = <<Hunk(MarkerA, << <<"-", "b">> >>, filepath)>>

\* C15: for any text every marker line opens a hunk that is flushed at the
\* next marker line or at the end of input, also when its body is empty: as
\* many records are returned as there are marker lines, the i-th with the
\* i-th marker line as header.
C15_OneRecordPerMarker ==
    gfh_pc = "done" =>
        LET ms == MarkerLines(Split(diff)) IN
        /\ Len(parsed_hunks) = Len(ms)
        /\ \A i \in 1..Len(ms) : parsed_hunks[i].header = ms[i]

\* The position of the last hunk shown before position k of the console.
ShownBefore(k) ==
    CHOOSE s \in 1..(k - 1) :
        /\ console[s].ev = "show"
        /\ \A j \in (s + 1)..(k - 1) : console[j].ev # "show"

\* The hunks of a file are shown one at a time from the first on, in the
\* order of get_file_hunks, and a hunk is shown after exactly one keep or
\* skip answer to the hunk before it; no hunk gets a second answer.
OneAtATimeInOrder ==
    \A k \in 1..Len(console) :
        /\ (console[k].ev = "show" /\ console[k].i > 1) =>
              /\ k > 2
              /\ console[k - 1].ev = "input"
              /\ console[k - 1].choice \in {"y", "n"}
              /\ console[k - 2] = Show(console[k].filepath, console[k].i - 1)
        /\ (console[k].ev = "show" /\ console[k].i = 1 /\ k > 1) =>
              /\ console[k - 1].ev = "input"
              /\ console[k].filepath # console[ShownBefore(k)].filepath
        /\ console[k].ev = "input" =>
              /\ k > 1
              /\ console[k - 1].ev = "show"

\* What interactive_stage_hunks has returned and collected so far is the
\* hunks answered 'y', in the order they were shown.
SelectedAreKept ==
    /\ sel_pc = "prompt" =>
          all_selected_hunks \o selected_hunks = KeptIn(console, Len(console))
    /\ sel_pc = "files" =>
          all_selected_hunks = KeptIn(console, Len(console))

\* A 'd' or an unrecognised answer asks again about the same hunk and
\* records nothing; while a file is gone through, answers are only added to.
RepromptSameHunk ==
    /\ reprompts' # reprompts =>
          /\ sel_pc = "prompt"
          /\ UNCHANGED <<mf_i, ish_hunks, hunk_i, selected_hunks,
                         all_selected_hunks, console, sel_pc>>
    /\ (sel_pc = "prompt" /\ sel_pc' = "prompt") =>
          /\ hunk_i' \in {hunk_i, hunk_i + 1}
          /\ Len(selected_hunks') >= Len(selected_hunks)
          /\ SubSeq(selected_hunks', 1, Len(selected_hunks)) = selected_hunks
          /\ Len(console') >= Len(console)
          /\ SubSeq(console', 1, Len(console)) = console

\* C16: interactive_stage_hunks shows the hunks of a file one at a time in
\* their original order; a 'd' or an unrecognised answer asks again about
\* the same hunk and records no decision; a hunk gets at most one keep or
\* skip answer, which is not taken back; what is returned is the hunks
\* answered keep, in original order.
C16_OneDecisionPerHunk ==
    /\ [](OneAtATimeInOrder /\ SelectedAreKept)
    /\ [][RepromptSameHunk]_vars

\* C16 witness: a file of two hunks; the first was skipped, the second
\* kept, one answer in between was not a decision.
C16_Witness ==
    /\ sel_pc = "files"
    /\ reprompts = 1
    /\ Len(ish_hunks) = 2
    /\ console = <<Show(modified_files[1], 1), Input("n"),
                   Show(modified_files[1], 2), Input("y")>>
    /\ all_selected_hunks = <<ish_hunks[2]>>

\* The step of one REPLACE directive, taken on the lines of a file, relates
\* the text before it and the text after it as str.replace does.
ReplacesEveryOccurrence ==
    (/\ doc_pc = "apply" /\ patch_i <= Len(patches) /\ patch_i' = patch_i + 1
     /\ LinesOfAFile(lines)
     /\ IsDirective(patches[patch_i], KwReplace)) =>
        LET patch == patches[patch_i]
            before == Concat(lines)
            after == Concat(lines')
        IN IF Contains(before, patch.section)
           THEN after = Replace(before, patch.section,
                                Join(patch.content, <<NL>>))
           ELSE after = before

\* C17: a REPLACE directive whose section occurs in the file leaves the
\* text of the file with every occurrence of the section replaced by the
\* directive's content and nothing else changed, whatever the number of
\* lines of the file; when the section does not occur the directive changes
\* nothing.
C17_ReplaceEveryOccurrence == [][ReplacesEveryOccurrence]_vars

\* C19: the patch document stage_hunks builds from hunks that get_file_hunks
\* produced for one file, parsed by get_file_hunks, gives these hunks again,
\* with the same headers, bodies and order; the lines of the file-pair
\* header come before the first marker and are in no hunk. This is so for
\* all hunks of a file of the working tree, and for every document
\* stage_hunks wrote.
C19_PatchRoundTrip ==
    /\ \A p \in Paths :
          LET H == get_file_hunks(p, worktree[p]) IN
          /\ get_file_hunks(p, PatchContent(p, H)) = H
          /\ get_file_hunks(p, PatchHeader(p)) = <<>>
    /\ \A k \in 1..Len(written) :
          get_file_hunks(written[k].filepath, written[k].content)
              = HunksOfPath(hunks, written[k].filepath)

\* C19 witness: stage_hunks wrote the document of a file from both of its
\* hunks, and the document parses to these two hunks.
C19_Witness ==
    /\ stage_pc = "done"
    /\ \E k \in 1..Len(written) :
          LET p == written[k].filepath
              H == get_file_hunks(p, worktree[p])
          IN /\ Len(H) = 2
             /\ HunksOfPath(hunks, p) = H
             /\ written[k].content = PatchContent(p, H)
             /\ get_file_hunks(p, written[k].content) = H
====
